---- MODULE Spec2Model ----
(***************************************************************************)
(* Recording control plane of go2file (package ffmpeg): the recording      *)
(* registries (RecordingManager, SegmentedRecordingManager), a Recording's *)
(* Start / Stop with its duration timer and registry sweep, the segment    *)
(* evaluator, the auto-record reconciliation passes, and the retention     *)
(* cleanup of the recordings directory.                                    *)
(***************************************************************************)
EXTENDS Integers, Sequences, FiniteSets, TLC

VARIABLES
    heap,       \* the *Recording objects ever allocated, in allocation order
    registry,   \* RecordingManager.recordings: id -> index into heap
    sheap,      \* the *SegmentedRecording objects ever allocated
    sregistry,  \* SegmentedRecordingManager.recordings: id -> index into sheap
    now,        \* time.Now(): whole seconds, and whole hours for the cleanup
    last,       \* the last call made and what it returned
    cfg,        \* GlobalRecordingConfig (the fields the control plane reads)
    known,      \* the streams streams.Get / streams.GetAllNames know
    orphans,    \* ffmpeg processes left running by a previous run, by stream
    auto,       \* the reconciliation goroutines: the eager pass and the monitor
    target,     \* the result of the last getStreamsToRecord call
    files,      \* the recording files under cfg.BasePath
    archive,    \* the files under cfg.ArchivePath
    result,     \* the CleanupResult of the last cleanup call
    cron,       \* a schedule expression, its parse and its next run
    sched,      \* scheduleManager and the position of its tick and of a removal
    locks       \* the mutexes of the managers and of their jobs, and the goroutines using them

vars == <<heap, registry, sheap, sregistry, now, last, cfg, known, orphans, auto, target,
          files, archive, result, cron, sched, locks>>

(***************************************************************************)
(* Bounds of the model.                                                    *)
(***************************************************************************)
MaxRecs == 3        \* Recording objects allocated in one behaviour
MaxSegRecs == 1     \* SegmentedRecording objects allocated through the API
MaxAutoSegRecs == 2 \* SegmentedRecording objects allocated by auto-recording
MaxIds == 2         \* distinct custom ids a caller passes
MaxTime == 1        \* seconds the clock advances
MaxPasses == 1      \* monitor passes after the eager pass was launched
MaxFiles == 3       \* recording files in the directory a cleanup finds
MaxSegment == 4     \* value of currentSegment up to which a rotation is attempted

(***************************************************************************)
(* Stream names are character sequences: the process probe matches them as *)
(* text, and "c" is a prefix of "c2".                                      *)
(***************************************************************************)
Streams == { <<"c">>, <<"c", "2">> }

NoStream == << >>

\* ids: <<kind, stream, n>>. api_recorder.go:117-120 ("<stream>_<unix>" or the
\* custom id), part_003:297 ("auto_<stream>_<unix>"), recording_segments.go:128
\* ("<id>_seg<n>", kept as the segment number in the Recording's seg field).
CustomIds == { <<"custom", NoStream, k>> : k \in 1..MaxIds }

AutoId(stream, t) == <<"auto", stream, t>>

Tri == { "unset", "true", "false" }

(***************************************************************************)
(* Configuration (recording_scheduler.go:394-921).                         *)
(***************************************************************************)

\* One entry of cfg.Streams: its enabled and auto_start pointers (nil, true or
\* false) and whether source is set.  Entries are loaded without an
\* enable_segments of their own, so the effective enable_segments of every stream
\* is the global one.  RetentionDays, RetentionHours and MaxRecordings are 0 for
\* an entry that does not set them.
StreamRecordingConfig ==
    [ Enabled : Tri, AutoStart : Tri, Source : BOOLEAN,
      RetentionDays : {0}, RetentionHours : {0}, MaxRecordings : {0} ]

\* ResolveDirectSource: "stream" for a per-stream source, "template" for the
\* global direct_source template, "" for internal routing.
ResolveDirectSource(streamName) ==
    IF streamName \in DOMAIN cfg.Streams /\ cfg.Streams[streamName].Source
    THEN "stream"
    ELSE IF cfg.DirectSource THEN "template" ELSE ""

\* GetStreamRecordingConfig: the effective Enabled, AutoStart, EnableSegments,
\* Source, RetentionDays, RetentionHours and MaxRecordings.
GetStreamRecordingConfig(streamName) ==
    [ Enabled |->
        IF streamName \in DOMAIN cfg.Streams /\ cfg.Streams[streamName].Enabled # "unset"
        THEN cfg.Streams[streamName].Enabled = "true"
        ELSE cfg.AutoStart,
      AutoStart |->
        IF streamName \in DOMAIN cfg.Streams /\ cfg.Streams[streamName].AutoStart # "unset"
        THEN cfg.Streams[streamName].AutoStart = "true"
        ELSE cfg.AutoStart,
      EnableSegments |-> cfg.EnableSegments,
      Source |-> ResolveDirectSource(streamName),
      RetentionDays |->
        IF streamName \in DOMAIN cfg.Streams /\ cfg.Streams[streamName].RetentionDays > 0
        THEN cfg.Streams[streamName].RetentionDays ELSE cfg.RetentionDays,
      RetentionHours |->
        IF streamName \in DOMAIN cfg.Streams /\ cfg.Streams[streamName].RetentionHours > 0
        THEN cfg.Streams[streamName].RetentionHours ELSE cfg.RetentionHours,
      MaxRecordings |->
        IF streamName \in DOMAIN cfg.Streams /\ cfg.Streams[streamName].MaxRecordings > 0
        THEN cfg.Streams[streamName].MaxRecordings ELSE cfg.MaxRecordings ]

\* IsStreamRecordingEnabled: the explicit enabled setting of a configured stream,
\* true for a configured stream without one; for a stream that is not configured,
\* the global auto_start when no stream is configured at all.
IsStreamRecordingEnabled(streamName) ==
    IF streamName \in DOMAIN cfg.Streams
    THEN cfg.Streams[streamName].Enabled # "false"
    ELSE cfg.AutoStart /\ DOMAIN cfg.Streams = {}

(***************************************************************************)
(* Recording (recorder.go:24-315).                                         *)
(***************************************************************************)

NoRec == 0

Inc(n) == IF n < 2 THEN n + 1 ELSE n

\* NewRecording, plus the goroutine states that belong to the object: its
\* duration timer and the registry sweep started for it.  capped is
\* Config.Duration > 0; owner and seg name the SegmentedRecording and the segment
\* number of a segment ("<id>_seg<n>").  nStop and nKill count the Stop calls
\* made on the object and the publisher.Stop calls they made.
NewRecording(id, streamName, capped, owner, seg) ==
    [ ID |-> id, Stream |-> streamName, Active |-> FALSE, publisher |-> FALSE,
      running |-> FALSE, capped |-> capped, timer |-> "none", sweep |-> "none",
      owner |-> owner, seg |-> seg, nStop |-> 0, nKill |-> 0 ]

\* Recording.Start: the source is validated (an internal source needs a known
\* stream), the producer is created and started (ok: both succeed within the
\* timeout), then the recording is Active and its duration timer is armed.
RecordingStart(r, ok) ==
    IF r.Active
    THEN [ rec |-> r, err |-> "AlreadyActive" ]
    ELSE IF ResolveDirectSource(r.Stream) = "" /\ r.Stream \notin known
    THEN [ rec |-> r, err |-> "SourceNotFound" ]
    ELSE IF ~ok
    THEN [ rec |-> r, err |-> "ProducerFailed" ]
    ELSE [ rec |-> [ r EXCEPT !.publisher = TRUE, !.Active = TRUE, !.running = TRUE,
                              !.timer = IF r.capped THEN "armed" ELSE "none" ],
           err |-> "nil" ]

\* A Stop that keeps the publisher when publisher.Stop fails.
RecordingStopKeepsPublisher(r, fail) ==
    IF ~r.Active
    THEN [ rec |-> [ r EXCEPT !.nStop = Inc(@) ], err |-> "nil" ]
    ELSE IF r.publisher /\ fail
    THEN [ rec |-> [ r EXCEPT !.nStop = Inc(@), !.nKill = Inc(@) ], err |-> "StopFailed" ]
    ELSE [ rec |-> [ r EXCEPT !.nStop = Inc(@), !.nKill = IF r.publisher THEN Inc(@) ELSE @,
                              !.publisher = FALSE, !.running = FALSE, !.Active = FALSE ],
           err |-> "nil" ]

\* Recording.Stop under r.mu: a no-op when not Active; otherwise publisher.Stop is
\* called if there is a publisher, which is cleared whatever the call returns; when
\* the call fails (fail) the error is returned before Active is reset and the
\* process is left as it was.
RecordingStop(r, fail) ==
    IF ~r.Active
    THEN [ rec |-> [ r EXCEPT !.nStop = Inc(@) ], err |-> "nil" ]
    ELSE IF r.publisher /\ fail
    THEN [ rec |-> [ r EXCEPT !.nStop = Inc(@), !.nKill = Inc(@), !.publisher = FALSE ],
           err |-> "StopFailed" ]
    ELSE [ rec |-> [ r EXCEPT !.nStop = Inc(@), !.nKill = IF r.publisher THEN Inc(@) ELSE @,
                              !.publisher = FALSE, !.running = FALSE, !.Active = FALSE ],
           err |-> "nil" ]

Call(op, id, obj, err) == [ op |-> op, id |-> id, obj |-> obj, err |-> err ]

NoId == <<"", NoStream, 0>>

(***************************************************************************)
(* RecordingManager (recorder.go:342-435).  Every method holds rm.mu from  *)
(* its first to its last statement, so each is one step; a method is an    *)
(* operator from the heap h and the registry reg to their new values, the  *)
(* Recording it acted on and the error it returned.                        *)
(***************************************************************************)

Remove(f, id) == [ x \in DOMAIN f \ {id} |-> f[x] ]

Put(f, id, v) == [ x \in DOMAIN f \cup {id} |-> IF x = id THEN v ELSE f[x] ]

\* A StartRecording that registers the Recording before it starts it.
StartRecordingRegisteredFirst(h, reg, id, streamName, capped, ok) ==
    IF id \in DOMAIN reg
    THEN [ heap |-> h, registry |-> reg, obj |-> NoRec, err |-> "AlreadyExists" ]
    ELSE LET res == RecordingStart(NewRecording(id, streamName, capped, 0, 0), ok)
         IN  [ heap |-> Append(h, [ res.rec EXCEPT !.sweep = "run" ]),
               registry |-> Put(reg, id, Len(h) + 1),
               obj |-> Len(h) + 1, err |-> res.err ]

\* RecordingManager.StartRecording: refused for a registered id; otherwise a new
\* Recording is started and, on success, registered and given its sweep goroutine.
StartRecording(h, reg, id, streamName, capped, ok) ==
    IF id \in DOMAIN reg
    THEN [ heap |-> h, registry |-> reg, obj |-> NoRec, err |-> "AlreadyExists" ]
    ELSE LET res == RecordingStart(NewRecording(id, streamName, capped, 0, 0), ok)
         IN  IF res.err # "nil"
             THEN [ heap |-> h, registry |-> reg, obj |-> NoRec, err |-> res.err ]
             ELSE [ heap |-> Append(h, [ res.rec EXCEPT !.sweep = "run" ]),
                    registry |-> Put(reg, id, Len(h) + 1),
                    obj |-> Len(h) + 1, err |-> "nil" ]

\* RecordingManager.StopRecording: NotFound for an unregistered id; otherwise the
\* Recording is stopped and its entry deleted, whatever Stop returned.
StopRecording(h, reg, id, fail) ==
    IF id \notin DOMAIN reg
    THEN [ heap |-> h, registry |-> reg, obj |-> NoRec, err |-> "NotFound" ]
    ELSE LET res == RecordingStop(h[reg[id]], fail)
         IN  [ heap |-> [ h EXCEPT ![reg[id]] = res.rec ],
               registry |-> Remove(reg, id),
               obj |-> reg[id], err |-> res.err ]

\* The goroutine Recording.Start launches for Config.Duration > 0: sleep, then Stop.
TimerStop(i, fail) ==
    /\ heap[i].timer = "armed"
    /\ LET res == RecordingStop(heap[i], fail)
       IN  /\ heap' = [ heap EXCEPT ![i] = [ res.rec EXCEPT !.timer = "fired" ] ]
           /\ last' = Call("timerStop", heap[i].ID, i, res.err)
    /\ UNCHANGED <<registry, sheap, sregistry, now, cfg, known, orphans, cron, sched, files, archive, result, auto, target,
                   locks>>

\* The goroutine StartRecording launches: once the Recording is no longer Active,
\* delete(rm.recordings, id), whichever Recording the id names by then.
Sweep(i) ==
    /\ heap[i].sweep = "run"
    /\ ~heap[i].Active
    /\ heap' = [ heap EXCEPT ![i].sweep = "done" ]
    /\ registry' = Remove(registry, heap[i].ID)
    /\ last' = Call("sweep", heap[i].ID, i, "nil")
    /\ UNCHANGED <<sheap, sregistry, now, cfg, known, orphans, cron, sched, files, archive, result, auto, target,
                   locks>>

(***************************************************************************)
(* SegmentedRecording and its manager (recording_segments.go).             *)
(***************************************************************************)

\* NewSegmentedRecording, plus the goroutines of the object: eval is the position
\* of manageSegments ("none", "wait" in its select, "rotate" between the unlock
\* after shouldStartNewSegment and the lock before startNextSegment, "exit"),
\* sweep the registry sweep.  stopped records that Stop has returned.
NewSegmentedRecording(id, streamName) ==
    [ ID |-> id, Stream |-> streamName, Active |-> FALSE, currentSegment |-> 0,
      currentRecording |-> NoRec, eval |-> "none", sweep |-> "none",
      stopped |-> FALSE ]

\* startNextSegment of SegmentedRecording number k: the counter is incremented,
\* the current segment is stopped if it is Active (its error dropped), a new
\* Recording "<id>_seg<n>" without duration cap is started; on success it becomes
\* the current one and the counter is incremented again.
startNextSegment(h, sr, k, ok, fail) ==
    LET n == sr.currentSegment + 1
        cur == sr.currentRecording
        h1 == IF cur # NoRec /\ h[cur].Active
              THEN [ h EXCEPT ![cur] = RecordingStop(h[cur], fail).rec ]
              ELSE h
        res == RecordingStart(NewRecording(sr.ID, sr.Stream, FALSE, k, n), ok)
    IN  IF res.err # "nil"
        THEN [ heap |-> h1, sr |-> [ sr EXCEPT !.currentSegment = n ], err |-> res.err ]
        ELSE [ heap |-> Append(h1, res.rec),
               sr |-> [ sr EXCEPT !.currentRecording = Len(h1) + 1,
                                  !.currentSegment = n + 1 ],
               err |-> "nil" ]

\* SegmentedRecording.Start: the first segment, then Active and manageSegments.
SegmentedStart(h, sr, k, ok) ==
    IF sr.Active
    THEN [ heap |-> h, sr |-> sr, err |-> "AlreadyActive" ]
    ELSE LET res == startNextSegment(h, sr, k, ok, FALSE)
         IN  IF res.err # "nil"
             THEN res
             ELSE [ heap |-> res.heap,
                    sr |-> [ res.sr EXCEPT !.Active = TRUE, !.eval = "wait" ],
                    err |-> "nil" ]

\* SegmentedRecording.Stop: a no-op when not Active; otherwise the current
\* segment is stopped (its error dropped) and forgotten, and Active is reset.
SegmentedStop(h, sr, fail) ==
    IF ~sr.Active
    THEN [ heap |-> h, sr |-> [ sr EXCEPT !.stopped = TRUE ], err |-> "nil" ]
    ELSE [ heap |-> IF sr.currentRecording # NoRec
                    THEN [ h EXCEPT ![sr.currentRecording] =
                                RecordingStop(h[sr.currentRecording], fail).rec ]
                    ELSE h,
           sr |-> [ sr EXCEPT !.currentRecording = NoRec, !.Active = FALSE,
                              !.stopped = TRUE ],
           err |-> "nil" ]

\* SegmentedRecordingManager.StartSegmentedRecording.
StartSegmentedRecording(h, sh, sreg, id, streamName, ok) ==
    IF id \in DOMAIN sreg
    THEN [ heap |-> h, sheap |-> sh, sregistry |-> sreg, obj |-> NoRec,
           err |-> "AlreadyExists" ]
    ELSE LET k == Len(sh) + 1
             res == SegmentedStart(h, NewSegmentedRecording(id, streamName), k, ok)
         IN  IF res.err # "nil"
             THEN [ heap |-> h, sheap |-> sh, sregistry |-> sreg, obj |-> NoRec,
                    err |-> res.err ]
             ELSE [ heap |-> res.heap,
                    sheap |-> Append(sh, [ res.sr EXCEPT !.sweep = "run" ]),
                    sregistry |-> Put(sreg, id, k), obj |-> k, err |-> "nil" ]

\* SegmentedRecordingManager.StopSegmentedRecording.
StopSegmentedRecording(h, sh, sreg, id, fail) ==
    IF id \notin DOMAIN sreg
    THEN [ heap |-> h, sheap |-> sh, sregistry |-> sreg, obj |-> NoRec,
           err |-> "NotFound" ]
    ELSE LET res == SegmentedStop(h, sh[sreg[id]], fail)
         IN  [ heap |-> res.heap,
               sheap |-> [ sh EXCEPT ![sreg[id]] = res.sr ],
               sregistry |-> Remove(sreg, id), obj |-> sreg[id], err |-> res.err ]

\* The goroutine StartSegmentedRecording launches: once the SegmentedRecording is
\* no longer Active, delete(srm.recordings, id).
SegmentedSweep(k) ==
    /\ sheap[k].sweep = "run"
    /\ ~sheap[k].Active
    /\ sheap' = [ sheap EXCEPT ![k].sweep = "done" ]
    /\ sregistry' = Remove(sregistry, sheap[k].ID)
    /\ last' = Call("segmentedSweep", sheap[k].ID, k, "nil")
    /\ UNCHANGED <<heap, registry, now, cfg, known, orphans, cron, sched, files, archive, result, auto, target,
                   locks>>

\* shouldStartNewSegment: elapsed is time.Since(segmentStartTime) >=
\* cfg.SegmentDuration, big is the file's size in MB >= cfg.MaxFileSize.
shouldStartNewSegment(sr, elapsed, big) ==
    IF sr.currentRecording = NoRec
    THEN FALSE
    ELSE \/ cfg.EnableSegments /\ cfg.SegmentDuration /\ elapsed
         \/ cfg.MaxFileSize /\ big

\* manageSegments, a tick of its ticker: shouldStartNewSegment under sr.mu, then
\* the lock is released; without a rotation the loop condition sr.Active is read.
EvalTick(k, elapsed, big) ==
    /\ sheap[k].eval = "wait"
    /\ sheap' = [ sheap EXCEPT ![k].eval =
                    IF shouldStartNewSegment(sheap[k], elapsed, big) THEN "rotate"
                    ELSE IF sheap[k].Active THEN "wait" ELSE "exit" ]
    /\ last' = Call("manageSegments", sheap[k].ID, k, "nil")
    /\ UNCHANGED <<heap, registry, sregistry, now, cfg, known, orphans, cron, sched, files, archive, result, auto, target,
                   locks>>

\* manageSegments after shouldStartNewSegment returned true: sr.mu is taken again
\* and startNextSegment runs, then the loop condition sr.Active is read.
EvalRotate(k, ok, fail) ==
    /\ sheap[k].eval = "rotate"
    /\ sheap[k].currentSegment < MaxSegment
    /\ LET res == startNextSegment(heap, sheap[k], k, ok, fail)
       IN  /\ Len(res.heap) <= MaxRecs
           /\ heap' = res.heap
           /\ sheap' = [ sheap EXCEPT ![k] =
                           [ res.sr EXCEPT !.eval = IF res.sr.Active THEN "wait" ELSE "exit" ] ]
           /\ last' = Call("startNextSegment", sheap[k].ID, k, res.err)
    /\ UNCHANGED <<registry, sregistry, now, cfg, known, orphans, cron, sched, files, archive, result, auto, target,
                   locks>>

(***************************************************************************)
(* The HTTP handlers (api_recorder.go).                                    *)
(***************************************************************************)

\* handleStartRecording: 404 for an unknown stream; the id is the id parameter or
\* "<stream>_<unix>"; the segmented manager is used when segments=true or
\* cfg.EnableSegments.
handleStartRecording(streamName, customID, capped, segments, ok) ==
    /\ IF streamName \notin known
       THEN /\ last' = Call("handleStartRecording", NoId, NoRec, "StreamNotFound")
            /\ UNCHANGED <<heap, registry, sheap, sregistry, locks>>
       ELSE LET id == IF customID = NoId THEN <<"manual", streamName, now>> ELSE customID
            IN  IF segments \/ cfg.EnableSegments
                THEN LET res == StartSegmentedRecording(heap, sheap, sregistry, id, streamName, ok)
                     IN  /\ Len(res.heap) <= MaxRecs
                         /\ Len(res.sheap) <= MaxSegRecs
                         /\ heap' = res.heap
                         /\ sheap' = res.sheap
                         /\ sregistry' = res.sregistry
                         /\ last' = Call("StartSegmentedRecording", id, res.obj, res.err)
                         /\ UNCHANGED registry
                ELSE LET res == StartRecording(heap, registry, id, streamName, capped, ok)
                     IN  /\ Len(res.heap) <= MaxRecs
                         /\ heap' = res.heap
                         /\ registry' = res.registry
                         /\ last' = Call("StartRecording", id, res.obj, res.err)
                         /\ UNCHANGED <<sheap, sregistry, locks>>
    /\ UNCHANGED <<now, cfg, known, orphans, cron, sched, files, archive, result, auto, target, locks>>

\* handleStopRecording: RecordingManager.StopRecording and, when that returns an
\* error, SegmentedRecordingManager.StopSegmentedRecording with the same id.
handleStopRecording(id, fail, sfail) ==
    /\ LET res == StopRecording(heap, registry, id, fail)
       IN  /\ registry' = res.registry
           /\ IF res.err = "nil"
              THEN /\ heap' = res.heap
                   /\ last' = Call("StopRecording", id, res.obj, "nil")
                   /\ UNCHANGED <<sheap, sregistry, locks>>
              ELSE LET sres == StopSegmentedRecording(res.heap, sheap, sregistry, id, sfail)
                   IN  /\ heap' = sres.heap
                       /\ sheap' = sres.sheap
                       /\ sregistry' = sres.sregistry
                       /\ last' = IF sres.err = "NotFound"
                                  THEN Call("StopRecording", id, res.obj, res.err)
                                  ELSE Call("StopSegmentedRecording", id, sres.obj, sres.err)
    /\ UNCHANGED <<now, cfg, known, orphans, cron, sched, files, archive, result, auto, target, locks>>

(***************************************************************************)
(* Auto-recording (part_003:13-320).                                       *)
(***************************************************************************)

\* The text of a recording's ffmpeg command line that follows the host of its
\* input URL: "/<stream>" for rtsp://127.0.0.1:<port>/<stream>.
CommandLine(streamName) == <<"/">> \o streamName

\* A regular-expression search without anchors: pat occurs somewhere in text.
Contains(text, pat) ==
    \E i \in 0..(Len(text) - Len(pat)) : SubSeq(text, i + 1, i + Len(pat)) = pat

\* The ffmpeg processes pgrep sees, by the stream they record: those of the
\* Recordings whose process runs and those left over by a previous run.
Processes == { heap[i].Stream : i \in { j \in DOMAIN heap : heap[j].running } } \cup orphans

\* A getStreamsToRecord that takes only the streams with enabled true.
getStreamsToRecordEnabledOnly ==
    IF cfg.AutoStart /\ DOMAIN cfg.Streams = {}
    THEN known
    ELSE { s \in DOMAIN cfg.Streams : cfg.Streams[s].Enabled = "true" }

\* getStreamsToRecord: every known stream when auto_start is on and no stream is
\* configured; otherwise the configured streams whose enabled is true or unset.
getStreamsToRecord ==
    IF cfg.AutoStart /\ DOMAIN cfg.Streams = {}
    THEN known
    ELSE { s \in DOMAIN cfg.Streams :
             \/ cfg.Streams[s].Enabled = "true"
             \/ cfg.Streams[s].Enabled = "unset" }

\* isAlreadyRecording: an Active job of the stream in either registry.
isAlreadyRecording(streamName) ==
    \/ \E id \in DOMAIN registry :
          heap[registry[id]].Stream = streamName /\ heap[registry[id]].Active
    \/ \E id \in DOMAIN sregistry :
          sheap[sregistry[id]].Stream = streamName /\ sheap[sregistry[id]].Active

\* isFFmpegProcessRunning: pgrep -f 'ffmpeg.*rtsp://.*/<stream>' finds a process.
isFFmpegProcessRunning(streamName) ==
    \E p \in Processes : Contains(CommandLine(p), <<"/">> \o streamName)

\* An isStreamActuallyRecording that needs both signals.
isStreamActuallyRecordingBoth(streamName) ==
    isAlreadyRecording(streamName) /\ isFFmpegProcessRunning(streamName)

\* isStreamActuallyRecording: either signal says recording.
isStreamActuallyRecording(streamName) ==
    isAlreadyRecording(streamName) \/ isFFmpegProcessRunning(streamName)

\* startAutoRecording: id "auto_<stream>_<unix>", no duration cap, through the
\* segmented manager when the stream's effective enable_segments is true.
startAutoRecording(streamName, streamConfig, ok) ==
    LET id == AutoId(streamName, now)
    IN  IF streamConfig.EnableSegments
        THEN LET res == StartSegmentedRecording(heap, sheap, sregistry, id, streamName, ok)
             IN  [ heap |-> res.heap, registry |-> registry, sheap |-> res.sheap,
                   sregistry |-> res.sregistry, id |-> id, obj |-> res.obj, err |-> res.err ]
        ELSE LET res == StartRecording(heap, registry, id, streamName, FALSE, ok)
             IN  [ heap |-> res.heap, registry |-> res.registry, sheap |-> sheap,
                   sregistry |-> sregistry, id |-> id, obj |-> res.obj, err |-> res.err ]

\* The two values isStreamActuallyRecording combined for a stream.
Signals(streamName) ==
    [ internal |-> isAlreadyRecording(streamName),
      process |-> isFFmpegProcessRunning(streamName) ]

NoSignals == [ internal |-> FALSE, process |-> FALSE ]

\* The reconciliation goroutines.  eagerRun: startAllEnabledRecordings has
\* launched its workers; eager: per worker, its position ("check", "start", "done")
\* and the signals its check read; todo, cur, seen: the streams the running monitor
\* pass has not handled yet, the stream whose check found it not recording, and
\* the signals that check read; passes: the monitor passes begun; starts: the
\* startAutoRecording calls made, each with the signals read before it; failed: a
\* startAutoRecording call returned an error or panicked; evaluated: the streams
\* the running monitor pass has finished with; started: the flag of the
\* AutoRecordingManager; monitors: the monitorAndAutoRecord goroutines in their
\* loop; stopped: StopAutoRecordings has returned and StartAutoRecordings was not
\* called since.
NoAuto ==
    [ eagerRun |-> FALSE, eager |-> << >>, todo |-> {}, cur |-> NoStream,
      seen |-> NoSignals, passes |-> 0, starts |-> {}, failed |-> FALSE,
      evaluated |-> {}, started |-> TRUE, monitors |-> 1, stopped |-> FALSE ]

\* The loop of checkAndStartAutoRecordings aborted by the first stream that fails.
streamsLeftAbortOnError(todo, streamName, err) ==
    IF err = "nil" \/ err = "Unavailable" THEN todo \ {streamName} ELSE {}

\* The loop of checkAndStartAutoRecordings after the handling of streamName ended
\* with err: the error is logged, a panic is recovered inside the closure of that
\* stream, and the range statement goes on to the remaining streams.
streamsLeft(todo, streamName, err) == todo \ {streamName}

\* The bookkeeping of a pass once the handling of streamName ended with err.
Handled(a, by, streamName, err) ==
    IF by = "checkAndStartAutoRecordings"
    THEN [ a EXCEPT !.todo = streamsLeft(@, streamName, err),
                    !.evaluated = @ \cup {streamName},
                    !.cur = NoStream, !.seen = NoSignals,
                    !.failed = @ \/ err \notin { "nil", "Unavailable" } ]
    ELSE [ a EXCEPT !.eager[streamName].pc = "done",
                    !.failed = @ \/ err \notin { "nil", "Unavailable" } ]

\* The part of a pass between the check of a stream and the end of its handling:
\* nothing for a stream that is neither known nor has a source, else
\* startAutoRecording.  by names the pass, sig the signals its check read.
AttemptStart(by, streamName, sig, ok, a) ==
    LET streamConfig == GetStreamRecordingConfig(streamName)
    IN  IF streamName \notin known /\ streamConfig.Source = ""
        THEN /\ auto' = Handled(a, by, streamName, "Unavailable")
             /\ last' = Call(by, NoId, NoRec, "Unavailable")
             /\ UNCHANGED <<heap, registry, sheap, sregistry, locks>>
        ELSE LET res == startAutoRecording(streamName, streamConfig, ok)
             IN  /\ Len(res.heap) <= MaxRecs
                 /\ Len(res.sheap) <= MaxAutoSegRecs
                 /\ heap' = res.heap
                 /\ registry' = res.registry
                 /\ sheap' = res.sheap
                 /\ sregistry' = res.sregistry
                 /\ last' = Call(by, res.id, res.obj, res.err)
                 /\ auto' = Handled(
                       [ a EXCEPT
                           !.starts = @ \cup { [ by |-> by, stream |-> streamName,
                                                 internal |-> sig.internal,
                                                 process |-> sig.process ] } ],
                       by, streamName, res.err)

\* startAllEnabledRecordings after its initial sleep: one worker per stream of
\* getStreamsToRecord.
EagerLaunch ==
    /\ ~auto.eagerRun
    /\ target' = getStreamsToRecord
    /\ auto' = [ auto EXCEPT !.eagerRun = TRUE,
                   !.eager = [ s \in getStreamsToRecord |->
                                 [ pc |-> "check", sig |-> NoSignals ] ] ]
    /\ last' = Call("startAllEnabledRecordings", NoId, NoRec, "nil")
    /\ UNCHANGED <<heap, registry, sheap, sregistry, now, cfg, known, orphans, cron, sched, files, archive, result,
                   locks>>

\* A worker of the eager pass: isStreamActuallyRecording(stream).
EagerCheck(s) ==
    /\ auto.eagerRun
    /\ s \in DOMAIN auto.eager
    /\ auto.eager[s].pc = "check"
    /\ auto' = [ auto EXCEPT !.eager[s] =
                   [ pc |-> IF isStreamActuallyRecording(s) THEN "done" ELSE "start",
                     sig |-> Signals(s) ] ]
    /\ last' = Call("isStreamActuallyRecording", NoId, NoRec, "nil")
    /\ UNCHANGED <<heap, registry, sheap, sregistry, now, cfg, known, orphans, cron, sched, files, archive, result, target,
                   locks>>

\* A worker of the eager pass whose check found the stream not recording.
EagerStart(s, ok) ==
    /\ auto.eagerRun
    /\ s \in DOMAIN auto.eager
    /\ auto.eager[s].pc = "start"
    /\ AttemptStart("startAllEnabledRecordings", s, auto.eager[s].sig, ok, auto)
    /\ UNCHANGED <<now, cfg, known, orphans, cron, sched, files, archive, result, target, locks>>

\* A worker of the eager pass panics while it starts its stream: the deferred
\* recover of that goroutine logs the panic and the worker ends.
EagerPanic(s) ==
    /\ auto.eagerRun
    /\ s \in DOMAIN auto.eager
    /\ auto.eager[s].pc = "start"
    /\ auto' = Handled(auto, "startAllEnabledRecordings", s, "panic")
    /\ last' = Call("startAllEnabledRecordings", NoId, NoRec, "panic")
    /\ UNCHANGED <<heap, registry, sheap, sregistry, now, cfg, known, orphans, cron, sched, files, archive, result, target,
                   locks>>

\* monitorAndAutoRecord, a tick of its ticker: checkAndStartAutoRecordings begins
\* with getStreamsToRecord.
MonitorTick ==
    /\ auto.todo = {}
    /\ auto.cur = NoStream
    /\ auto.passes < MaxPasses
    /\ target' = getStreamsToRecord
    /\ auto' = [ auto EXCEPT !.todo = getStreamsToRecord, !.passes = @ + 1,
                              !.evaluated = {} ]
    /\ last' = Call("checkAndStartAutoRecordings", NoId, NoRec, "nil")
    /\ UNCHANGED <<heap, registry, sheap, sregistry, now, cfg, known, orphans, cron, sched, files, archive, result,
                   locks>>

\* checkAndStartAutoRecordings, the check of the next stream (the order is that of
\* a map iteration): a stream found recording is skipped.
MonitorCheck(s) ==
    /\ auto.cur = NoStream
    /\ s \in auto.todo
    /\ auto' = IF isStreamActuallyRecording(s)
               THEN Handled(auto, "checkAndStartAutoRecordings", s, "nil")
               ELSE [ auto EXCEPT !.cur = s, !.seen = Signals(s) ]
    /\ last' = Call("isStreamActuallyRecording", NoId, NoRec, "nil")
    /\ UNCHANGED <<heap, registry, sheap, sregistry, now, cfg, known, orphans, cron, sched, files, archive, result, target,
                   locks>>

\* checkAndStartAutoRecordings for the stream its check found not recording.
MonitorStart(ok) ==
    /\ auto.cur # NoStream
    /\ AttemptStart("checkAndStartAutoRecordings", auto.cur, auto.seen, ok, auto)
    /\ UNCHANGED <<now, cfg, known, orphans, cron, sched, files, archive, result, target, locks>>

\* checkAndStartAutoRecordings panics while it starts the stream its check found
\* not recording: the deferred recover of that stream's closure logs the panic.
MonitorPanic ==
    /\ auto.cur # NoStream
    /\ auto' = Handled(auto, "checkAndStartAutoRecordings", auto.cur, "panic")
    /\ last' = Call("checkAndStartAutoRecordings", NoId, NoRec, "panic")
    /\ UNCHANGED <<heap, registry, sheap, sregistry, now, cfg, known, orphans, cron, sched, files, archive, result, target,
                   locks>>

\* time.Now().Unix() moves to the next second.
Tick ==
    /\ now < MaxTime
    /\ now' = now + 1
    /\ UNCHANGED <<heap, registry, sheap, sregistry, last, cfg, known, orphans, cron, sched, files, archive, result, auto, target,
                   locks>>

MaxMonitors == 2    \* monitorAndAutoRecord goroutines launched

RECURSIVE stopAutoRegular(_, _, _), stopAutoSegmented(_, _, _, _)
\* The first loop of StopAutoRecordings over the ids listed: StopRecording for
\* each.  publisher.Stop succeeds here.
stopAutoRegular(h, reg, ids) ==
    IF ids = {} THEN [ heap |-> h, registry |-> reg ]
    ELSE LET id == CHOOSE x \in ids : TRUE
             res == StopRecording(h, reg, id, FALSE)
         IN  stopAutoRegular(res.heap, res.registry, ids \ {id})

\* The second loop of StopAutoRecordings: StopSegmentedRecording for each id.
stopAutoSegmented(h, sh, sreg, ids) ==
    IF ids = {} THEN [ heap |-> h, sheap |-> sh, sregistry |-> sreg ]
    ELSE LET id == CHOOSE x \in ids : TRUE
             res == StopSegmentedRecording(h, sh, sreg, id, FALSE)
         IN  stopAutoSegmented(res.heap, res.sheap, res.sregistry, ids \ {id})

\* StopAutoRecordings, called for a manager that was started: every Active
\* recording and segmented recording whose id begins with "auto_" is stopped and
\* the flag is reset.  The goroutines StartAutoRecordings launched are not told.
StopAutoRecordings ==
    /\ auto.started
    /\ \E reg \in { stopAutoRegular(heap, registry,
                       { id \in DOMAIN registry :
                            heap[registry[id]].Active /\ id[1] = "auto" }) } :
          \E seg \in { stopAutoSegmented(reg.heap, sheap, sregistry,
                          { id \in DOMAIN sregistry :
                               sheap[sregistry[id]].Active /\ id[1] = "auto" }) } :
             /\ heap' = seg.heap
             /\ registry' = reg.registry
             /\ sheap' = seg.sheap
             /\ sregistry' = seg.sregistry
    /\ auto' = [ auto EXCEPT !.started = FALSE, !.stopped = TRUE ]
    /\ last' = Call("StopAutoRecordings", NoId, NoRec, "nil")
    /\ UNCHANGED <<now, cfg, known, orphans, cron, sched, files, archive, result, target, locks>>

\* StartAutoRecordings: a no-op when started; otherwise the flag is set and the
\* goroutines startAllEnabledRecordings and monitorAndAutoRecord are launched.
\* Here it is called again once the workers of the earlier eager pass have ended.
StartAutoRecordings ==
    /\ ~auto.started
    /\ auto.monitors < MaxMonitors
    /\ auto.eagerRun
    /\ \A s \in DOMAIN auto.eager : auto.eager[s].pc = "done"
    /\ auto' = [ auto EXCEPT !.started = TRUE, !.stopped = FALSE,
                              !.monitors = @ + 1,
                              !.eagerRun = FALSE, !.eager = << >> ]
    /\ last' = Call("StartAutoRecordings", NoId, NoRec, "nil")
    /\ UNCHANGED <<heap, registry, sheap, sregistry, now, cfg, known, orphans, cron,
                   sched, files, archive, result, target, locks>>

(***************************************************************************)
(* The recording managers under the HTTP API.                              *)
(***************************************************************************)

(***************************************************************************)
(* Schedules (recording_scheduler.go:14-392).  In this part of the model a *)
(* time is a whole number of minutes since Saturday 2000-01-01 00:00.      *)
(***************************************************************************)

\* The text of a number is <<n>> when strconv.Atoi reads the integer n from it and
\* NaN when strconv.Atoi rejects it.
NaN == << >>

IsNum(x) == x # NaN

Atoi(x) == x[1]

\* A comma-separated part of a cron field after strings.Split: a single value
\* "a" (k = "val"), a range "a-b" (k = "range"), a step "*/s", "a/s" or "a-b/s"
\* (k = "step", with base "*", "val" or "range"), or a part with more than one
\* '/' or more than one '-' in a range (k = "bad").
Val(a) == [ k |-> "val", a |-> a ]

Range(a, b) == [ k |-> "range", a |-> a, b |-> b ]

Step(base, a, b, s) == [ k |-> "step", base |-> base, a |-> a, b |-> b, s |-> s ]

BadPart == [ k |-> "bad" ]

\* The part "*".
Star == [ k |-> "*" ]

RECURSIVE loopValues(_, _, _, _, _), loopValuesDown(_, _, _, _)
\* The values of the loop  for i := start; i <= end; i += step  that lie in
\* min..max, in the order the loop appends them.
loopValues(i, end, step, min, max) ==
    IF i > end THEN << >>
    ELSE (IF i >= min /\ i <= max THEN <<i>> ELSE << >>)
            \o loopValues(i + step, end, step, min, max)

\* The values the same loop appends when step is negative: i runs down from
\* start through every value of min..max it meets, wraps around below -2^63 to a
\* value greater than end, and the loop ends there.
loopValuesDown(i, step, min, max) ==
    IF i < min THEN << >>
    ELSE (IF i <= max THEN <<i>> ELSE << >>) \o loopValuesDown(i + step, step, min, max)

\* parseField for one part: its values and its error.  A step of 0 with
\* start <= end never leaves the loop ("hang"); a negative step leaves it only
\* after the 64-bit counter has wrapped around.
parsePart(part, min, max) ==
    CASE part.k = "bad" -> [ vals |-> << >>, err |-> "invalid format" ]
      [] part.k = "*" -> [ vals |-> << >>, err |-> "invalid value" ]
      [] part.k = "val" ->
           IF ~IsNum(part.a) THEN [ vals |-> << >>, err |-> "invalid value" ]
           ELSE IF Atoi(part.a) >= min /\ Atoi(part.a) <= max
                THEN [ vals |-> part.a, err |-> "nil" ]
                ELSE [ vals |-> << >>, err |-> "out of range" ]
      [] part.k = "range" ->
           IF ~IsNum(part.a) \/ ~IsNum(part.b)
           THEN [ vals |-> << >>, err |-> "invalid range" ]
           ELSE [ vals |-> loopValues(Atoi(part.a), Atoi(part.b), 1, min, max),
                  err |-> "nil" ]
      [] part.k = "step" ->
           IF ~IsNum(part.s) THEN [ vals |-> << >>, err |-> "invalid step value" ]
           ELSE IF part.base = "range" /\ (~IsNum(part.a) \/ ~IsNum(part.b))
           THEN [ vals |-> << >>, err |-> "invalid range" ]
           ELSE IF part.base = "val" /\ ~IsNum(part.a)
           THEN [ vals |-> << >>, err |-> "invalid start value" ]
           ELSE LET start == IF part.base = "*" THEN min ELSE Atoi(part.a)
                    end == CASE part.base = "*" -> max
                             [] part.base = "val" -> Atoi(part.a)
                             [] part.base = "range" -> Atoi(part.b)
                IN  IF Atoi(part.s) = 0 /\ start <= end
                    THEN [ vals |-> << >>, err |-> "hang" ]
                    ELSE IF Atoi(part.s) < 0 /\ start <= end
                    THEN [ vals |-> loopValuesDown(start, Atoi(part.s), min, max),
                           err |-> "nil" ]
                    ELSE [ vals |-> loopValues(start, end, Atoi(part.s), min, max),
                           err |-> "nil" ]

RECURSIVE parseParts(_, _, _)
\* parseField over the parts of a field, left to right: the first error ends it.
parseParts(parts, min, max) ==
    IF parts = << >> THEN [ vals |-> << >>, err |-> "nil" ]
    ELSE LET head == parsePart(Head(parts), min, max)
             rest == parseParts(Tail(parts), min, max)
         IN  IF head.err # "nil" THEN head
             ELSE IF rest.err # "nil" THEN rest
             ELSE [ vals |-> head.vals \o rest.vals, err |-> "nil" ]

\* parseField(field, min, max): <<-1>> for the wildcard "*", else the values of
\* the parts.
parseField(field, min, max) ==
    IF field = <<Star>> THEN [ vals |-> <<-1>>, err |-> "nil" ]
    ELSE parseParts(field, min, max)

\* The range of each of the five fields.
FieldRange ==
    [ Minutes |-> <<0, 59>>, Hours |-> <<0, 23>>, Days |-> <<1, 31>>,
      Months |-> <<1, 12>>, Weekdays |-> <<0, 6>> ]

FieldNames == <<"Minutes", "Hours", "Days", "Months", "Weekdays">>

\* parseSchedule of an expression, a record of its fields: five fields or an error,
\* and the first field in error gives the error.
parseSchedule(scheduleStr) ==
    IF DOMAIN scheduleStr # { FieldNames[i] : i \in DOMAIN FieldNames }
    THEN [ err |-> "schedule must have 5 fields" ]
    ELSE LET f(n) == parseField(scheduleStr[n], FieldRange[n][1], FieldRange[n][2])
             bad == { i \in DOMAIN FieldNames : f(FieldNames[i]).err # "nil" }
         IN  IF bad # {}
             THEN [ err |-> f(FieldNames[CHOOSE i \in bad : \A j \in bad : i <= j]).err ]
             ELSE [ err |-> "nil", Minutes |-> f("Minutes").vals, Hours |-> f("Hours").vals,
                    Days |-> f("Days").vals, Months |-> f("Months").vals,
                    Weekdays |-> f("Weekdays").vals ]

\* matchesField.
matchesField(scheduleField, timeValue) ==
    \/ scheduleField = <<-1>>
    \/ \E i \in DOMAIN scheduleField : scheduleField[i] = timeValue

\* The calendar: the year 2000 began on a Saturday.
MonthLengths == <<31, 29, 31, 30, 31, 30, 31, 31, 30, 31, 30, 31>>

RECURSIVE MonthAndDay(_, _)
\* The month and day of the month of the d-th day of the year, d counted from 0
\* and m the first month it can fall in.
MonthAndDay(d, m) ==
    IF d < MonthLengths[m] THEN <<m, d + 1>> ELSE MonthAndDay(d - MonthLengths[m], m + 1)

TimeMinute(t) == t % 60
TimeHour(t) == (t \div 60) % 24
TimeDay(t) == MonthAndDay(t \div 1440, 1)[2]
TimeMonth(t) == MonthAndDay(t \div 1440, 1)[1]
TimeWeekday(t) == (6 + (t \div 1440)) % 7

\* matchesSchedule.
matchesSchedule(schedule, t) ==
    /\ matchesField(schedule.Minutes, TimeMinute(t))
    /\ matchesField(schedule.Hours, TimeHour(t))
    /\ matchesField(schedule.Days, TimeDay(t))
    /\ matchesField(schedule.Months, TimeMonth(t))
    /\ matchesField(schedule.Weekdays, TimeWeekday(t))

\* The number of minutes calculateNextRun looks ahead, 366*24*60*2.
LookAhead == 1054080

\* No minute.
NoMinute == -1

RECURSIVE scanHour(_, _, _)
\* n iterations of the loop of calculateNextRun from minute current: the first
\* minute that matches, or NoMinute.
scanHour(schedule, current, n) ==
    IF n = 0 THEN NoMinute
    ELSE IF matchesSchedule(schedule, current) THEN current
    ELSE scanHour(schedule, current + 1, n - 1)

RECURSIVE scanDay(_, _, _)
\* n times sixty iterations of the loop from minute current.
scanDay(schedule, current, n) ==
    IF n = 0 THEN NoMinute
    ELSE LET found == scanHour(schedule, current, 60)
         IN  IF found # NoMinute THEN found
             ELSE scanDay(schedule, current + 60, n - 1)

RECURSIVE scan(_, _, _, _)
\* The loop of calculateNextRun from minute current, i minutes in, taken 24 times
\* sixty iterations at a time: the first minute that matches, or from + 24 hours
\* once LookAhead minutes were tried.
scan(schedule, from, current, i) ==
    IF i >= LookAhead THEN from + 24 * 60
    ELSE LET found == scanDay(schedule, current, 24)
         IN  IF found # NoMinute THEN found
             ELSE scan(schedule, from, current + 24 * 60, i + 24 * 60)

\* A schedule with a field without values matches no minute, and neither does one
\* whose days of the month exist in none of its months.
matchesNothing(schedule) ==
    \/ \E n \in { "Minutes", "Hours", "Days", "Months", "Weekdays" } : schedule[n] = << >>
    \/ /\ schedule.Days # <<-1>>
       /\ schedule.Months # <<-1>>
       /\ \A i \in DOMAIN schedule.Days, j \in DOMAIN schedule.Months :
             schedule.Days[i] > MonthLengths[schedule.Months[j]]

\* A calculateNextRun that begins its scan at the minute of from.
calculateNextRunFromSameMinute(schedule, from) ==
    IF matchesNothing(schedule) THEN from + 24 * 60 ELSE scan(schedule, from, from, 0)

\* calculateNextRun(schedule, from): the scan begins at the minute after from.  The
\* scan of a schedule that matches no minute ends after LookAhead minutes with
\* from + 24 hours.
calculateNextRun(schedule, from) ==
    IF matchesNothing(schedule) THEN from + 24 * 60 ELSE scan(schedule, from, from + 1, 0)

\* The field "*".
All == <<Star>>

Expr(minutes, hours, days, months, weekdays) ==
    [ Minutes |-> minutes, Hours |-> hours, Days |-> days, Months |-> months,
      Weekdays |-> weekdays ]

\* "0 9 * * 1-5"
Weekdays9 == Expr(<<Val(<<0>>)>>, <<Val(<<9>>)>>, All, All, <<Range(<<1>>, <<5>>)>>)

\* "*/15 * * * *"
Quarterly == Expr(<<Step("*", NaN, NaN, <<15>>)>>, All, All, All, All)

\* "* * * * *"
EveryMinute == Expr(All, All, All, All, All)

\* No expression under evaluation.
NoCron == [ step |-> "none" ]

\* A scheduleManager without schedules, not running: objs are the StreamSchedule
\* objects allocated and schedules maps a stream to its object; routine is the
\* position of scheduleRoutine, lastTick the time its ticker last fired, tickNow
\* the argument of checkAndExecuteSchedules, todo the schedules its range has yet
\* to produce, cur the one it is at, due and start what it read of it; stopped is
\* set once StopScheduler has returned.
NoSched ==
    [ running |-> FALSE, routine |-> "none", lastTick |-> 0, tickNow |-> 0,
      objs |-> << >>, schedules |-> << >>, todo |-> {}, cur |-> 0, due |-> FALSE,
      start |-> FALSE, stopped |-> FALSE ]

(***************************************************************************)
(* The scheduler (recording_scheduler.go:35-207).  scheduleManager has no  *)
(* lock: AddSchedule, RemoveSchedule and StopScheduler run on the caller's *)
(* goroutine while scheduleRoutine runs checkAndExecuteSchedules on its    *)
(* own, so a tick is taken one schedule at a time, in two steps: the read  *)
(* of NextRun and ActiveID, and what follows from it.                      *)
(***************************************************************************)

\* The number of StreamSchedule objects AddSchedule allocates.
MaxSchedules == 2

\* The number of minutes that pass.
MaxMinutes == 3

\* A *StreamSchedule.  capped is Duration > 0; started holds the Recordings
\* startScheduledRecording started for it, and removed is set once
\* RemoveSchedule has returned for it.
NewSchedule(streamName, capped, parsed, nextRun) ==
    [ StreamName |-> streamName, capped |-> capped, parsedSchedule |-> parsed,
      NextRun |-> nextRun, ActiveID |-> NoId, started |-> {}, removed |-> FALSE ]

\* The expressions the schedules are added with.
ScheduleExpressions == { EveryMinute, Quarterly }

\* AddSchedule(streamName, scheduleStr, duration): nothing is added when the
\* expression does not parse; otherwise a new StreamSchedule replaces the entry of
\* the stream.  A range over the map that is under way may or may not produce the
\* new entry (visit).
AddSchedule(streamName, scheduleStr, capped, visit) ==
    /\ Len(sched.objs) < MaxSchedules
    /\ visit => sched.routine = "range"
    /\ \E parsed \in { parseSchedule(scheduleStr) } :
          /\ parsed.err # "hang"
          /\ IF parsed.err # "nil"
             THEN sched' = sched
             ELSE sched' =
                    [ sched EXCEPT
                        !.objs = Append(@, NewSchedule(streamName, capped, parsed,
                                                       calculateNextRun(parsed, now))),
                        !.schedules = Put(@, streamName, Len(sched.objs) + 1),
                        !.todo = IF visit
                                 THEN (@ \ { sched.schedules[s] :
                                               s \in DOMAIN sched.schedules \cap {streamName} })
                                         \cup { Len(sched.objs) + 1 }
                                 ELSE @ \ { sched.schedules[s] :
                                              s \in DOMAIN sched.schedules \cap {streamName} } ]
    /\ UNCHANGED <<heap, registry, sheap, sregistry, now, last, cfg, known, orphans, cron,
                   files, archive, result, auto, target, locks>>

\* RemoveSchedule(streamName): the active recording of the schedule is stopped and
\* the error of StopRecording dropped, then the entry is deleted.  publisher.Stop
\* succeeds here.
RemoveSchedule(streamName) ==
    /\ streamName \in DOMAIN sched.schedules
    /\ LET i == sched.schedules[streamName]
           schedule == sched.objs[i]
           res == IF schedule.ActiveID # NoId
                  THEN StopRecording(heap, registry, schedule.ActiveID, FALSE)
                  ELSE [ heap |-> heap, registry |-> registry, obj |-> NoRec, err |-> "nil" ]
       IN  /\ heap' = res.heap
           /\ registry' = res.registry
           /\ sched' = [ sched EXCEPT !.objs[i].removed = TRUE,
                                      !.schedules = Remove(@, streamName),
                                      !.todo = @ \ {i} ]
    /\ UNCHANGED <<sheap, sregistry, now, last, cfg, known, orphans, cron, files, archive,
                   result, auto, target, locks>>

\* StartScheduler: a no-op when running; otherwise running is set and the
\* scheduleRoutine goroutine launched.  It is called once.
StartScheduler ==
    /\ sched.routine = "none"
    /\ ~sched.running
    /\ ~sched.stopped
    /\ sched' = [ sched EXCEPT !.running = TRUE, !.routine = "top", !.lastTick = now ]
    /\ UNCHANGED <<heap, registry, sheap, sregistry, now, last, cfg, known, orphans, cron,
                   files, archive, result, auto, target, locks>>

RECURSIVE stopAll(_, _, _, _)
\* The loop of StopScheduler over the schedules todo: StopRecording for every
\* ActiveID, its error dropped, and ActiveID reset.
stopAll(h, reg, objs, todo) ==
    IF todo = {} THEN [ heap |-> h, registry |-> reg, objs |-> objs ]
    ELSE LET i == CHOOSE x \in todo : TRUE
         IN  IF objs[i].ActiveID = NoId
             THEN stopAll(h, reg, objs, todo \ {i})
             ELSE LET res == StopRecording(h, reg, objs[i].ActiveID, FALSE)
                  IN  stopAll(res.heap, res.registry,
                              [ objs EXCEPT ![i].ActiveID = NoId ], todo \ {i})

\* StopScheduler: a no-op when not running; otherwise running is reset and every
\* active scheduled recording stopped.  The schedules stay in the map.
StopScheduler ==
    /\ sched.running
    /\ \E out \in { stopAll(heap, registry, sched.objs,
                            { sched.schedules[s] : s \in DOMAIN sched.schedules }) } :
          /\ heap' = out.heap
          /\ registry' = out.registry
          /\ sched' = [ sched EXCEPT !.running = FALSE, !.objs = out.objs,
                                     !.stopped = TRUE ]
    /\ UNCHANGED <<sheap, sregistry, now, last, cfg, known, orphans, cron, files, archive,
                   result, auto, target, locks>>

\* scheduleRoutine at "for scheduleManager.running": it enters the select, or ends.
RoutineLoop ==
    /\ sched.routine = "top"
    /\ sched' = [ sched EXCEPT !.routine = IF sched.running THEN "select" ELSE "none" ]
    /\ UNCHANGED <<heap, registry, sheap, sregistry, now, last, cfg, known, orphans,
                   cron, files, archive, result, auto, target, locks>>

\* A minute passes.
Minute ==
    /\ now < MaxMinutes
    /\ now' = now + 1
    /\ UNCHANGED <<heap, registry, sheap, sregistry, last, cfg, known, orphans, cron,
                   sched, files, archive, result, auto, target, locks>>

\* The ticker fires, a minute after the last time, and checkAndExecuteSchedules(now)
\* begins its range over the schedules; running is not read again before it.
TickBegin ==
    /\ sched.routine = "select"
    /\ now > sched.lastTick
    /\ sched' = [ sched EXCEPT !.routine = "range", !.lastTick = now, !.tickNow = now,
                               !.todo = { sched.schedules[s] : s \in DOMAIN sched.schedules },
                               !.cur = 0 ]
    /\ UNCHANGED <<heap, registry, sheap, sregistry, now, last, cfg, known, orphans,
                   cron, files, archive, result, auto, target, locks>>

\* checkAndExecuteSchedules takes the next schedule and reads its NextRun and its
\* ActiveID (lines 159-160).
TickCheck(i) ==
    /\ sched.routine = "range"
    /\ sched.cur = 0
    /\ i \in sched.todo
    /\ sched' = [ sched EXCEPT
                    !.cur = i, !.todo = @ \ {i},
                    !.due = sched.tickNow >= sched.objs[i].NextRun,
                    !.start = sched.tickNow >= sched.objs[i].NextRun
                                /\ sched.objs[i].ActiveID = NoId ]
    /\ UNCHANGED <<heap, registry, sheap, sregistry, now, last, cfg, known, orphans,
                   cron, files, archive, result, auto, target, locks>>

\* A check that leaves the ActiveID as it is.
checkedActiveIDKept(h, reg, id) == id

\* The ActiveID a schedule is left with by lines 179-184: reset when its recording
\* is not registered or not Active.
checkedActiveID(h, reg, id) ==
    IF id # NoId /\ (id \notin DOMAIN reg \/ ~h[reg[id]].Active) THEN NoId ELSE id

\* The rest of the loop body for the schedule taken (lines 161-184):
\* startScheduledRecording when it was due without an ActiveID, the next run when
\* it was due, and the check of the ActiveID.
TickRun(ok) ==
    /\ sched.routine = "range"
    /\ sched.cur # 0
    /\ LET i == sched.cur
           schedule == sched.objs[i]
           recordingID == <<"sched", schedule.StreamName, now>>
       IN  \E res \in { IF sched.start
                        THEN StartRecording(heap, registry, recordingID,
                                            schedule.StreamName, schedule.capped, ok)
                        ELSE [ heap |-> heap, registry |-> registry, obj |-> NoRec,
                               err |-> "none" ] } :
              /\ sched.start => Len(heap) < MaxRecs
              /\ ~sched.start => ok
              /\ heap' = res.heap
              /\ registry' = res.registry
              /\ sched' =
                   [ sched EXCEPT
                       !.cur = 0,
                       !.objs[i].started = IF res.err = "nil" THEN @ \cup {res.obj} ELSE @,
                       !.objs[i].NextRun =
                           IF sched.due
                           THEN calculateNextRun(schedule.parsedSchedule, sched.tickNow + 1)
                           ELSE @,
                       !.objs[i].ActiveID =
                           checkedActiveID(res.heap, res.registry,
                                           IF res.err = "nil" THEN recordingID ELSE @) ]
    /\ UNCHANGED <<sheap, sregistry, now, last, cfg, known, orphans, cron, files, archive,
                   result, auto, target, locks>>

\* checkAndExecuteSchedules returns and scheduleRoutine is at its loop again.
TickEnd ==
    /\ sched.routine = "range"
    /\ sched.cur = 0
    /\ sched.todo = {}
    /\ sched' = [ sched EXCEPT !.routine = "top" ]
    /\ UNCHANGED <<heap, registry, sheap, sregistry, now, last, cfg, known, orphans,
                   cron, files, archive, result, auto, target, locks>>

(***************************************************************************)
(* The mutexes (recorder.go:47-49, 272-274, 356-435; recording_segments.go *)
(* 39-41, 70-72, 148-174, 204-206, 310-350).  A goroutine is modelled by   *)
(* the Lock and Unlock calls it makes, in the order it makes them: rm.mu   *)
(* and srm.mu are the locks of the two managers, sr.mu that of a           *)
(* SegmentedRecording, r.mu that of a registered Recording, seg.mu that of *)
(* the current segment and next.mu that of the segment a rotation creates. *)
(***************************************************************************)

MaxThreads == 3     \* goroutines using the locks at the same time

Threads == 1..MaxThreads

Mutexes == { "rm.mu", "srm.mu", "sr.mu", "r.mu", "seg.mu", "next.mu" }

Lock(m) == <<"Lock", m>>

Unlock(m) == <<"Unlock", m>>

\* A duration-expiry stop that would also delete the entry of the registry.
expiryStopUnderRegistry ==
    << Lock("r.mu"), Lock("rm.mu"), Unlock("rm.mu"), Unlock("r.mu") >>

\* The goroutine of Recording.Start for Config.Duration > 0: r.Stop().
expiryStop == << Lock("r.mu"), Unlock("r.mu") >>

\* The operations that take locks.
LockOps ==
    { "StartRecording", "StopRecording", "StopAll", "expiry", "sweep",
      "StartSegmentedRecording", "StopSegmentedRecording", "segmentedSweep",
      "GetStatus", "manageSegments" }

\* The Lock and Unlock calls of an operation.  StartRecording: rm.mu, then
\* Recording.Start takes r.mu.  StopRecording and StopAll: rm.mu, then
\* Recording.Stop takes r.mu.  The sweeps take the lock of their manager.
\* StartSegmentedRecording: srm.mu, SegmentedRecording.Start takes sr.mu and
\* startNextSegment starts the first segment.  StopSegmentedRecording: srm.mu,
\* SegmentedRecording.Stop takes sr.mu and stops the current segment.  GetStatus:
\* sr.mu, then the GetStatus of the current segment.  manageSegments: sr.mu around
\* shouldStartNewSegment, then sr.mu around startNextSegment, which stops the
\* current segment and starts the next.
LockSteps(op) ==
    CASE op \in { "StartRecording", "StopRecording", "StopAll" } ->
           << Lock("rm.mu"), Lock("r.mu"), Unlock("r.mu"), Unlock("rm.mu") >>
      [] op = "expiry" -> expiryStop
      [] op = "sweep" -> << Lock("rm.mu"), Unlock("rm.mu") >>
      [] op = "StartSegmentedRecording" ->
           << Lock("srm.mu"), Lock("sr.mu"), Lock("next.mu"), Unlock("next.mu"),
              Unlock("sr.mu"), Unlock("srm.mu") >>
      [] op = "StopSegmentedRecording" ->
           << Lock("srm.mu"), Lock("sr.mu"), Lock("seg.mu"), Unlock("seg.mu"),
              Unlock("sr.mu"), Unlock("srm.mu") >>
      [] op = "segmentedSweep" -> << Lock("srm.mu"), Unlock("srm.mu") >>
      [] op = "GetStatus" ->
           << Lock("sr.mu"), Lock("seg.mu"), Unlock("seg.mu"), Unlock("sr.mu") >>
      [] op = "manageSegments" ->
           << Lock("sr.mu"), Unlock("sr.mu"),
              Lock("sr.mu"), Lock("seg.mu"), Unlock("seg.mu"),
              Lock("next.mu"), Unlock("next.mu"), Unlock("sr.mu") >>

\* No goroutine is in an operation and every mutex is free.  owner: the goroutine
\* holding a mutex, or 0; thread: per goroutine its operation, the number of the
\* call it makes next and the mutexes it holds, in the order it took them.
NoLocks ==
    [ owner |-> [ m \in Mutexes |-> 0 ],
      thread |-> [ t \in Threads |-> [ op |-> "idle", pc |-> 0, held |-> << >> ] ] ]

\* The call goroutine t makes next.
NextCall(t) == LockSteps(locks.thread[t].op)[locks.thread[t].pc]

\* Goroutine t after its next call returned; it is idle after the last one.
Advance(th, held) ==
    IF th.pc = Len(LockSteps(th.op))
    THEN [ op |-> "idle", pc |-> 0, held |-> held ]
    ELSE [ op |-> th.op, pc |-> th.pc + 1, held |-> held ]

\* A goroutine enters an operation.
Begin(t, op) ==
    /\ locks.thread[t].op = "idle"
    /\ locks' = [ locks EXCEPT !.thread[t] = [ op |-> op, pc |-> 1, held |-> << >> ] ]
    /\ UNCHANGED <<heap, registry, sheap, sregistry, now, last, cfg, known, orphans,
                   auto, target, files, archive, result, cron, sched>>

\* mu.Lock() returns for goroutine t: the mutex was free (sync.Mutex is not
\* reentrant).
Acquire(t) ==
    /\ locks.thread[t].op # "idle"
    /\ NextCall(t)[1] = "Lock"
    /\ locks.owner[NextCall(t)[2]] = 0
    /\ locks' = [ locks EXCEPT
                    !.owner[NextCall(t)[2]] = t,
                    !.thread[t] = Advance(@, Append(@.held, NextCall(t)[2])) ]
    /\ UNCHANGED <<heap, registry, sheap, sregistry, now, last, cfg, known, orphans,
                   auto, target, files, archive, result, cron, sched>>

\* mu.Unlock() by goroutine t.
Release(t) ==
    /\ locks.thread[t].op # "idle"
    /\ NextCall(t)[1] = "Unlock"
    /\ locks' = [ locks EXCEPT
                    !.owner[NextCall(t)[2]] = 0,
                    !.thread[t] =
                        Advance(@, SelectSeq(@.held, LAMBDA m : m # NextCall(t)[2])) ]
    /\ UNCHANGED <<heap, registry, sheap, sregistry, now, last, cfg, known, orphans,
                   auto, target, files, archive, result, cron, sched>>

\* An empty CleanupResult.  Beside the fields of the struct: op, err, DryRun and
\* OlderThanDays are the call that returned it, its error and its arguments;
\* Marked lists the files a policy selected, Failed those whose removal returned an
\* error although they were there, SizeRemoved those the global size pass removed.
NoResult ==
    [ op |-> "", FilesDeleted |-> 0, FilesArchived |-> 0, DeletedFiles |-> {},
      ArchivedFiles |-> {}, Policies |-> {}, Failed |-> {}, Marked |-> {},
      SizeRemoved |-> {}, DryRun |-> FALSE, OlderThanDays |-> 0, err |-> "nil" ]

\* GlobalRecordingConfig as the program starts with it, enable_segments as loaded.
DefaultConfig(enableSegments) ==
    [ AutoStart |-> FALSE, EnableSegments |-> enableSegments, SegmentDuration |-> TRUE,
      MaxFileSize |-> TRUE, DirectSource |-> FALSE, Streams |-> << >>,
      RetentionDays |-> 7, RetentionHours |-> 0, MaxRecordings |-> 100,
      MaxTotalSize |-> 10240, MoveToArchive |-> FALSE, ArchivePath |-> TRUE ]


Init ==
    /\ heap = << >>
    /\ registry = << >>
    /\ sheap = << >>
    /\ sregistry = << >>
    /\ now = 0
    /\ last = Call("init", NoId, NoRec, "nil")
    /\ cfg = DefaultConfig(FALSE)
    /\ known = { <<"c">> }
    /\ orphans = {}
    /\ auto = NoAuto
    /\ target = {}
    /\ files = {}
    /\ archive = {}
    /\ result = NoResult
    /\ cron = NoCron
    /\ sched = NoSched
    /\ locks = NoLocks

\* Single recordings: started and stopped through the API, stopped by their
\* duration timers, removed by their sweeps.
Next ==
    \/ \E s \in Streams, id \in CustomIds \cup {NoId}, capped \in BOOLEAN, ok \in BOOLEAN :
          handleStartRecording(s, id, capped, FALSE, ok)
    \/ \E id \in CustomIds, fail \in BOOLEAN : handleStopRecording(id, fail, FALSE)
    \/ \E i \in DOMAIN heap, fail \in BOOLEAN : TimerStop(i, fail)
    \/ \E i \in DOMAIN heap : Sweep(i)

Spec == Init /\ [][Next]_vars

(***************************************************************************)
(* Recordings with a duration limit: every start passes duration and the   *)
(* same id, so each Recording has its timer beside the explicit stops of   *)
(* the API, and the id is reused as soon as it is free.                    *)
(***************************************************************************)

TimedId == <<"custom", NoStream, 1>>

NextTimer ==
    \/ \E ok \in BOOLEAN : handleStartRecording(<<"c">>, TimedId, TRUE, FALSE, ok)
    \/ \E fail \in BOOLEAN : handleStopRecording(TimedId, fail, FALSE)
    \/ \E i \in DOMAIN heap, fail \in BOOLEAN : TimerStop(i, fail)
    \/ \E i \in DOMAIN heap : Sweep(i)

SpecTimer == Init /\ [][NextTimer]_vars

(***************************************************************************)
(* Recordings with a duration limit and no explicit Stop call: the timer   *)
(* goroutine of a Recording and the sweep goroutine of its registration    *)
(* are each scheduled again and again until they have run.                 *)
(***************************************************************************)

\* The timer goroutine and the sweep goroutine of the i-th Recording, if there is
\* one.
TimerOf(i) == IF i \in DOMAIN heap THEN \E fail \in BOOLEAN : TimerStop(i, fail) ELSE FALSE

SweepOf(i) == IF i \in DOMAIN heap THEN Sweep(i) ELSE FALSE

NextCapped ==
    \/ \E s \in Streams, id \in CustomIds \cup {NoId}, ok \in BOOLEAN :
          handleStartRecording(s, id, TRUE, FALSE, ok)
    \/ \E i \in DOMAIN heap, fail \in BOOLEAN : TimerStop(i, fail)
    \/ \E i \in DOMAIN heap : Sweep(i)

SpecCapped ==
    /\ Init
    /\ [][NextCapped]_vars
    /\ \A i \in 1..MaxRecs : WF_vars(TimerOf(i)) /\ WF_vars(SweepOf(i))

(***************************************************************************)
(* Segmented recordings under the HTTP API.                                *)
(***************************************************************************)

InitSeg ==
    /\ heap = << >>
    /\ registry = << >>
    /\ sheap = << >>
    /\ sregistry = << >>
    /\ now = 0
    /\ last = Call("init", NoId, NoRec, "nil")
    /\ \E b \in BOOLEAN : cfg = DefaultConfig(b)
    /\ known = Streams
    /\ orphans = {}
    /\ auto = NoAuto
    /\ target = {}
    /\ files = {}
    /\ archive = {}
    /\ result = NoResult
    /\ cron = NoCron
    /\ sched = NoSched
    /\ locks = NoLocks

NextSeg ==
    \/ \E s \in Streams, id \in CustomIds, ok \in BOOLEAN :
          handleStartRecording(s, id, FALSE, TRUE, ok)
    \/ \E id \in CustomIds, sfail \in BOOLEAN : handleStopRecording(id, FALSE, sfail)
    \/ \E k \in DOMAIN sheap : SegmentedSweep(k)
    \/ \E k \in DOMAIN sheap, elapsed \in BOOLEAN, big \in BOOLEAN : EvalTick(k, elapsed, big)
    \/ \E k \in DOMAIN sheap, ok \in BOOLEAN, fail \in BOOLEAN : EvalRotate(k, ok, fail)

SpecSeg == InitSeg /\ [][NextSeg]_vars

(***************************************************************************)
(* Auto-recording: the eager pass and the monitor over a loaded config.    *)
(***************************************************************************)

\* The values recording.streams can be loaded with.
StreamConfigs == UNION { [ S -> StreamRecordingConfig ] : S \in SUBSET Streams }

InitAuto ==
    /\ heap = << >>
    /\ registry = << >>
    /\ sheap = << >>
    /\ sregistry = << >>
    /\ now = 0
    /\ last = Call("init", NoId, NoRec, "nil")
    /\ \E b \in BOOLEAN, a \in BOOLEAN,
          st \in { f \in StreamConfigs : \A s \in DOMAIN f : f[s].AutoStart = "unset" } :
          cfg = [ DefaultConfig(b) EXCEPT !.AutoStart = a, !.Streams = st ]
    /\ known \in SUBSET Streams
    /\ orphans \in SUBSET Streams
    /\ auto = NoAuto
    /\ target = {}
    /\ files = {}
    /\ archive = {}
    /\ result = NoResult
    /\ cron = NoCron
    /\ sched = NoSched
    /\ locks = NoLocks

NextAuto ==
    \/ EagerLaunch
    \/ \E s \in Streams : EagerCheck(s)
    \/ \E s \in Streams, ok \in BOOLEAN : EagerStart(s, ok)
    \/ MonitorTick
    \/ \E s \in Streams : MonitorCheck(s)
    \/ \E ok \in BOOLEAN : MonitorStart(ok)
    \/ Tick

SpecAuto == InitAuto /\ [][NextAuto]_vars

(***************************************************************************)
(* The goroutines of the two managers and their locks.                     *)
(***************************************************************************)

InitLocks == Init

NextLocks ==
    \/ \E t \in Threads, op \in LockOps : Begin(t, op)
    \/ \E t \in Threads : Acquire(t)
    \/ \E t \in Threads : Release(t)

SpecLocks == InitLocks /\ [][NextLocks]_vars

(***************************************************************************)
(* The two readings of the enabled setting over every configuration of the *)
(* streams.                                                                *)
(***************************************************************************)

InitEnabled ==
    /\ heap = << >>
    /\ registry = << >>
    /\ sheap = << >>
    /\ sregistry = << >>
    /\ now = 0
    /\ last = Call("init", NoId, NoRec, "nil")
    /\ \E a \in BOOLEAN,
          st \in { f \in StreamConfigs : \A s \in DOMAIN f : ~f[s].Source } :
          cfg = [ DefaultConfig(FALSE) EXCEPT !.AutoStart = a, !.Streams = st ]
    /\ known = Streams
    /\ orphans = {}
    /\ auto = NoAuto
    /\ target = {}
    /\ files = {}
    /\ archive = {}
    /\ result = NoResult
    /\ cron = NoCron
    /\ sched = NoSched
    /\ locks = NoLocks

\* A caller reads the setting of a stream both ways.
ReadEnabled(streamName) ==
    /\ result' = [ op |-> "IsStreamRecordingEnabled", stream |-> streamName,
                   enabled |-> IsStreamRecordingEnabled(streamName),
                   effective |-> GetStreamRecordingConfig(streamName).Enabled ]
    /\ UNCHANGED <<heap, registry, sheap, sregistry, now, last, cfg, known, orphans,
                   auto, target, files, archive, cron, sched, locks>>

NextEnabled == \E s \in Streams : ReadEnabled(s)

SpecEnabled == InitEnabled /\ [][NextEnabled]_vars

(***************************************************************************)
(* Auto-recording of every known stream with StopAutoRecordings and a      *)
(* second StartAutoRecordings.                                             *)
(***************************************************************************)

InitStop ==
    /\ heap = << >>
    /\ registry = << >>
    /\ sheap = << >>
    /\ sregistry = << >>
    /\ now = 0
    /\ last = Call("init", NoId, NoRec, "nil")
    /\ \E b \in BOOLEAN : cfg = [ DefaultConfig(b) EXCEPT !.AutoStart = TRUE ]
    /\ known \in SUBSET Streams
    /\ orphans = {}
    /\ auto = NoAuto
    /\ target = {}
    /\ files = {}
    /\ archive = {}
    /\ result = NoResult
    /\ cron = NoCron
    /\ sched = NoSched
    /\ locks = NoLocks

NextStop ==
    \/ EagerLaunch
    \/ \E s \in Streams : EagerCheck(s)
    \/ \E s \in Streams, ok \in BOOLEAN : EagerStart(s, ok)
    \/ MonitorTick
    \/ \E s \in Streams : MonitorCheck(s)
    \/ \E ok \in BOOLEAN : MonitorStart(ok)
    \/ Tick
    \/ StopAutoRecordings
    \/ StartAutoRecordings

SpecStop == InitStop /\ [][NextStop]_vars

(***************************************************************************)
(* Auto-recording over every per-stream enabled and auto_start setting,    *)
(* with starts that fail or panic.                                         *)
(***************************************************************************)

InitPass ==
    /\ heap = << >>
    /\ registry = << >>
    /\ sheap = << >>
    /\ sregistry = << >>
    /\ now = 0
    /\ last = Call("init", NoId, NoRec, "nil")
    /\ \E a \in BOOLEAN,
          st \in { f \in StreamConfigs : \A s \in DOMAIN f : ~f[s].Source } :
          cfg = [ DefaultConfig(FALSE) EXCEPT !.AutoStart = a, !.Streams = st ]
    /\ known \in SUBSET Streams
    /\ orphans = {}
    /\ auto = NoAuto
    /\ target = {}
    /\ files = {}
    /\ archive = {}
    /\ result = NoResult
    /\ cron = NoCron
    /\ sched = NoSched
    /\ locks = NoLocks

NextPass ==
    \/ EagerLaunch
    \/ \E s \in Streams : EagerCheck(s)
    \/ \E s \in Streams, ok \in BOOLEAN : EagerStart(s, ok)
    \/ \E s \in Streams : EagerPanic(s)
    \/ MonitorTick
    \/ \E s \in Streams : MonitorCheck(s)
    \/ \E ok \in BOOLEAN : MonitorStart(ok)
    \/ MonitorPanic

SpecPass == InitPass /\ [][NextPass]_vars

(***************************************************************************)
(* Retention and cleanup (src/unnamed/part_004).  In this part of the      *)
(* model a time is a whole number of hours and a size a whole number of MB.*)
(***************************************************************************)

Digits == <<"0", "1", "2", "3", "4", "5", "6", "7", "8", "9">>

IsDigit(c) == \E i \in DOMAIN Digits : Digits[i] = c

DigitVal(c) == (CHOOSE i \in DOMAIN Digits : Digits[i] = c) - 1

TwoDigits(n) == << Digits[(n \div 10) + 1], Digits[(n % 10) + 1] >>

\* The calendar of the model: hour t lies in day t \div 24 of January 2000, at
\* t % 24 o'clock.
Day(t) == (t \div 24) + 1

\* startTime.Format("2006-01-02_15-04-05"), 19 characters.
Timestamp(t) ==
    <<"2", "0", "0", "0", "-", "0", "1", "-">> \o TwoDigits(Day(t)) \o <<"_">>
        \o TwoDigits(t % 24) \o <<"-", "0", "0", "-", "0", "0">>

\* startTime.Format("2006/01/02"), the date directories of a path.
DateDir(t) == <<"2", "0", "0", "0", "/", "0", "1", "/">> \o TwoDigits(Day(t))

\* GenerateRecordingPath with the default templates: the directory
\* {year}/{month}/{day}/{stream} and the file name {stream}_{timestamp}.
GenerateRecordingPath(streamName, startTime) ==
    [ Dir |-> DateDir(startTime) \o <<"/">> \o streamName,
      Name |-> streamName \o <<"_">> \o Timestamp(startTime) ]

\* The first pattern of extractRecordingTimeFromPath,
\* (\d{4})-(\d{2})-(\d{2})_(\d{2})-(\d{2})-(\d{2}), tried at position i of name.
MatchAt(name, i) ==
    /\ i + 18 <= Len(name)
    /\ \A k \in {0, 1, 2, 3, 5, 6, 8, 9, 11, 12, 14, 15, 17, 18} : IsDigit(name[i + k])
    /\ \A k \in {4, 7, 13, 16} : name[i + k] = "-"
    /\ name[i + 10] = "_"

ZeroTime == -1

\* extractRecordingTimeFromPath: the time the leftmost timestamp of the file name
\* parses to, the zero time for a name without one.
extractRecordingTimeFromPath(path) ==
    LET name == path.Name
        at == { i \in DOMAIN name : MatchAt(name, i) }
    IN  IF at = {} THEN ZeroTime
        ELSE LET i == CHOOSE j \in at : \A k \in at : j <= k
                 day == DigitVal(name[i + 8]) * 10 + DigitVal(name[i + 9])
                 hour == DigitVal(name[i + 11]) * 10 + DigitVal(name[i + 12])
             IN  (day - 1) * 24 + hour

Unknown == <<"unknown">>

\* extractStreamFromPath: the file name up to a '_' found 19 characters before its
\* end; filepath.SplitList splits at the list separator ':', never at '/', so a
\* relative path is one part and the directory fallback is never taken.
extractStreamFromPath(path) ==
    LET name == path.Name
        idx == Len(name) - 19
    IN  IF idx > 0 /\ idx < Len(name) /\ name[idx + 1] = "_"
        THEN SubSeq(name, 1, idx)
        ELSE Unknown

\* findRecordingFiles: one CleanupRecordingInfo per file under the base path.
findRecordingFiles(fs) ==
    { [ Path |-> f.Path, ModTime |-> f.ModTime,
        RecordingTime |-> IF extractRecordingTimeFromPath(f.Path) = ZeroTime
                          THEN f.ModTime
                          ELSE extractRecordingTimeFromPath(f.Path),
        Size |-> f.Size, Stream |-> extractStreamFromPath(f.Path) ] : f \in fs }

\* GetRetentionDuration, in hours.
GetRetentionDuration ==
    IF cfg.RetentionHours > 0 THEN cfg.RetentionHours
    ELSE IF cfg.RetentionDays > 0 THEN cfg.RetentionDays * 24
    ELSE 7 * 24

\* The orders sort.Slice can leave recs in, oldest recording time first; the sort
\* is not stable, so recordings of equal time come in any order.
SortedByRecordingTime(recs) ==
    { q \in [ 1..Cardinality(recs) -> recs ] :
        /\ \A i, j \in DOMAIN q : i < j =>
              q[i] # q[j] /\ q[i].RecordingTime <= q[j].RecordingTime }

\* The file system: fs the files under the base path, ar the files under the
\* archive path.
Exists(fsys, path) == \E f \in fsys.fs : f.Path = path

FileAt(fsys, path) == CHOOSE f \in fsys.fs : f.Path = path

\* archiveFile: the file moves to <archive>/<streamName>/<date of its
\* modification time>/<file name>; os.Rename fails for a file that is gone or
\* that cannot be moved.  From records the file that was moved.
archiveFile(fsys, rec, streamName) ==
    IF ~Exists(fsys, rec.Path) \/ FileAt(fsys, rec.Path).Locked
    THEN [ fsys |-> fsys, err |-> "Rename" ]
    ELSE [ fsys |-> [ fs |-> fsys.fs \ { FileAt(fsys, rec.Path) },
                      ar |-> fsys.ar \cup
                             { [ Dir |-> streamName \o <<"/">> \o DateDir(rec.ModTime),
                                 Name |-> rec.Path.Name,
                                 From |-> FileAt(fsys, rec.Path) ] } ],
           err |-> "nil" ]

\* os.Remove.
osRemove(fsys, path) ==
    IF ~Exists(fsys, path) \/ FileAt(fsys, path).Locked
    THEN [ fsys |-> fsys, err |-> "Remove" ]
    ELSE [ fsys |-> [ fsys EXCEPT !.fs = @ \ { FileAt(fsys, path) } ], err |-> "nil" ]

\* The element of a one-element set: The({ F(x) : x \in {e} }) is F(e) with e
\* evaluated once.
The(S) == CHOOSE x \in S : TRUE

\* What one removal leaves: the file system out.fsys and the counters of result r
\* advanced for rec, which was there or not before the call.
removalOutcome(r, rec, arch, there, out) ==
    [ fsys |-> out.fsys,
      result |->
        [ r EXCEPT
            !.Marked = @ \cup {rec.Path},
            !.Failed = IF out.err # "nil" /\ there THEN @ \cup {rec.Path} ELSE @,
            !.FilesDeleted = IF out.err = "nil" /\ ~arch THEN @ + 1 ELSE @,
            !.DeletedFiles = IF out.err = "nil" /\ ~arch THEN @ \cup {rec.Path} ELSE @,
            !.FilesArchived = IF out.err = "nil" /\ arch THEN @ + 1 ELSE @,
            !.ArchivedFiles = IF out.err = "nil" /\ arch THEN @ \cup {rec.Path} ELSE @ ],
      err |-> out.err ]

\* The removal both cleanup passes make of one marked recording: archiveFile when
\* move_to_archive is set and archive_path is not empty, else os.Remove.
removeMarked(st, rec, streamName) ==
    The({ The({ removalOutcome(s.result, rec, cfg.MoveToArchive /\ cfg.ArchivePath,
                               Exists(s.fsys, rec.Path), out) :
                out \in { IF cfg.MoveToArchive /\ cfg.ArchivePath
                          THEN archiveFile(s.fsys, rec, streamName)
                          ELSE osRemove(s.fsys, rec.Path) } }) :
          s \in {st} })

RECURSIVE processMarkedAbortOnError(_, _, _)
\* A "process deletions/archives" loop that returns at the first removal that
\* fails.
processMarkedAbortOnError(st, toDelete, streamName) ==
    IF toDelete = << >> THEN st
    ELSE The({ IF out.err # "nil" THEN out
               ELSE processMarkedAbortOnError(out, Tail(toDelete), streamName) :
               out \in { removeMarked(st, Head(toDelete), streamName) } })

RECURSIVE processMarked(_, _, _)
\* The "process deletions/archives" loop of cleanupStreamWithStats: a removal that
\* fails is logged and the loop goes on.
processMarked(st, toDelete, streamName) ==
    IF toDelete = << >> THEN st
    ELSE processMarked(removeMarked(st, Head(toDelete), streamName), Tail(toDelete),
                       streamName)

\* A marking by file modification time instead of recording time.
markedOfStreamByModTime(recordings) ==
    SelectSeq(recordings, LAMBDA rec : rec.ModTime < now - GetRetentionDuration)

\* The recordings cleanupStreamWithStats marks, given them oldest first: those
\* whose recording time is before now - GetRetentionDuration(), then those before
\* the max_recordings newest.
markedOfStream(recordings) ==
    LET cutoffTime == now - GetRetentionDuration
        byAge == SelectSeq(recordings, LAMBDA rec : rec.RecordingTime < cutoffTime)
        excess == IF cfg.MaxRecordings > 0 /\ Len(recordings) > cfg.MaxRecordings
                  THEN SubSeq(recordings, 1, Len(recordings) - cfg.MaxRecordings)
                  ELSE << >>
    IN  byAge \o SelectSeq(excess, LAMBDA rec : ~(rec.RecordingTime < cutoffTime))

\* cleanupStreamWithStats(streamName, recordings), recordings sorted; it returns
\* no error.
cleanupStreamWithStats(st, streamName, recordings) ==
    LET cutoffTime == now - GetRetentionDuration
        aged == \E i \in DOMAIN recordings : recordings[i].RecordingTime < cutoffTime
        capped == cfg.MaxRecordings > 0 /\ Len(recordings) > cfg.MaxRecordings
        policies == (IF aged THEN { <<"retention", streamName>> } ELSE {})
                    \cup (IF capped THEN { <<"max_count", streamName>> } ELSE {})
        done == processMarked(st, markedOfStream(recordings), streamName)
    IN  [ done EXCEPT !.result.Policies = @ \cup policies ]

RECURSIVE cleanupStreams(_, _, _)
\* The "apply cleanup policies per stream" loop of runCleanupWithStats over the
\* groups of streamRecordings; sorted holds all recordings oldest first.
cleanupStreams(st, streamNames, sorted) ==
    IF streamNames = {} THEN st
    ELSE LET stream == CHOOSE s \in streamNames : TRUE
             recs == SelectSeq(sorted, LAMBDA rec : rec.Stream = stream)
         IN  cleanupStreams(cleanupStreamWithStats(st, stream, recs),
                            streamNames \ {stream}, sorted)

RECURSIVE TotalSize(_)
TotalSize(S) ==
    IF S = {} THEN 0
    ELSE LET x == CHOOSE y \in S : TRUE IN x.Size + TotalSize(S \ {x})

\* A size loop that removes at most one file in a pass.
sizeLoopOneFile(st, recordings, totalSize) ==
    IF recordings = << >> \/ totalSize <= cfg.MaxTotalSize THEN st
    ELSE removeMarked(st, Head(recordings), Head(recordings).Stream)

RECURSIVE sizeLoop(_, _, _)
\* The "delete oldest files until under limit" loop of
\* enforceGlobalSizeLimitWithStats: a removal that fails is logged and skipped
\* without lowering totalSize.
sizeLoop(st, recordings, totalSize) ==
    IF recordings = << >> \/ totalSize <= cfg.MaxTotalSize THEN st
    ELSE The({ sizeLoop([ out EXCEPT !.result.SizeRemoved =
                            IF out.err = "nil" THEN @ \cup {Head(recordings).Path} ELSE @ ],
                        Tail(recordings),
                        IF out.err = "nil" THEN totalSize - Head(recordings).Size
                        ELSE totalSize) :
               out \in { removeMarked(st, Head(recordings), Head(recordings).Stream) } })

\* A size pass that never removes a file.
enforceGlobalSizeLimitSkipped(st, sorted) == st

\* enforceGlobalSizeLimitWithStats(recordings), given the list sorted; the list is
\* the one runCleanupWithStats read before its per-stream pass.
enforceGlobalSizeLimitWithStats(st, sorted) ==
    LET totalSize == TotalSize({ sorted[i] : i \in DOMAIN sorted })
    IN  IF totalSize <= cfg.MaxTotalSize THEN st
        ELSE sizeLoop([ st EXCEPT !.result.Policies = @ \cup { <<"global_size_limit">> } ],
                      sorted, totalSize)

\* runCleanupWithStats; bySort and bySize are the orders its two sorts leave.
runCleanupWithStats(fsys, bySort, bySize) ==
    LET recordings == findRecordingFiles(fsys.fs)
        st0 == [ fsys |-> fsys, result |-> [ NoResult EXCEPT !.op = "runCleanupWithStats" ] ]
        st1 == cleanupStreams(st0, { rec.Stream : rec \in recordings }, bySort)
    IN  IF cfg.MaxTotalSize > 0 THEN enforceGlobalSizeLimitWithStats(st1, bySize) ELSE st1

\* A forced cleanup that ignores its dryRun argument.
ForceCleanupIgnoringDryRun(fsys, sorted, olderThanDays, dryRun) ==
    LET old == SelectSeq(sorted, LAMBDA rec : rec.RecordingTime < now - olderThanDays * 24)
        gone == { old[i].Path : i \in { j \in DOMAIN old :
                     osRemove(fsys, old[j].Path).err = "nil" } }
    IN  [ fsys |-> [ fsys EXCEPT !.fs = { f \in @ : f.Path \notin gone } ],
          result |-> [ NoResult EXCEPT !.op = "ForceCleanupOldRecordings",
                         !.Policies = { <<"force_cleanup">> }, !.DryRun = dryRun,
                         !.OlderThanDays = olderThanDays,
                         !.FilesDeleted = Cardinality(gone), !.DeletedFiles = gone,
                         !.Marked = { old[i].Path : i \in DOMAIN old },
                         !.Failed = { old[i].Path : i \in DOMAIN old } \ gone ] ]

\* ForceCleanupOldRecordings(olderThanDays, dryRun), sorted its list oldest first.
ForceCleanupOldRecordings(fsys, sorted, olderThanDays, dryRun) ==
    LET cutoffTime == now - olderThanDays * 24
        old == SelectSeq(sorted, LAMBDA rec : rec.RecordingTime < cutoffTime)
        r0 == [ NoResult EXCEPT !.op = "ForceCleanupOldRecordings",
                                !.Policies = { <<"force_cleanup">> },
                                !.DryRun = dryRun, !.OlderThanDays = olderThanDays ]
        gone == { old[i].Path : i \in { j \in DOMAIN old :
                     osRemove(fsys, old[j].Path).err = "nil" } }
    IN  IF dryRun
        THEN [ fsys |-> fsys,
               result |-> [ r0 EXCEPT !.DeletedFiles = { old[i].Path : i \in DOMAIN old },
                                      !.Marked = { old[i].Path : i \in DOMAIN old } ] ]
        ELSE [ fsys |-> [ fsys EXCEPT !.fs = { f \in @ : f.Path \notin gone } ],
               result |-> [ r0 EXCEPT !.FilesDeleted = Cardinality(gone),
                                      !.DeletedFiles = gone,
                                      !.Marked = { old[i].Path : i \in DOMAIN old },
                                      !.Failed = { old[i].Path : i \in DOMAIN old } \ gone ] ]

\* cleanupRoutine's tick, CleanupNow and CleanupNowWithStats: one cleanup pass.
CleanupNowWithStats ==
    \E bySort \in SortedByRecordingTime(findRecordingFiles(files)) :
    \E bySize \in IF cfg.MaxTotalSize > 0
                  THEN SortedByRecordingTime(findRecordingFiles(files))
                  ELSE { bySort } :
        \E out \in { runCleanupWithStats([ fs |-> files, ar |-> archive ], bySort, bySize) } :
            /\ files' = out.fsys.fs
            /\ archive' = out.fsys.ar
            /\ result' = out.result
            /\ last' = Call("runCleanupWithStats", NoId, NoRec, "nil")
            /\ UNCHANGED <<heap, registry, sheap, sregistry, now, cfg, known, orphans, cron, sched,
                           auto, target, locks>>

\* A caller of ForceCleanupOldRecordings.
ForceCleanup(olderThanDays, dryRun) ==
    \E sorted \in SortedByRecordingTime(findRecordingFiles(files)) :
        \E out \in { ForceCleanupOldRecordings([ fs |-> files, ar |-> archive ], sorted,
                                                olderThanDays, dryRun) } :
            /\ files' = out.fsys.fs
            /\ archive' = out.fsys.ar
            /\ result' = out.result
            /\ last' = Call("ForceCleanupOldRecordings", NoId, NoRec, "nil")
            /\ UNCHANGED <<heap, registry, sheap, sregistry, now, cfg, known, orphans, cron, sched,
                           auto, target, locks>>

(***************************************************************************)
(* Cleanup over a recordings directory written by earlier recordings.      *)
(***************************************************************************)

\* The time of the cleanup passes, and the ages of the files they find.
CleanupTime == 200
Ages == { 2, 30 }

\* A file a Recording of streamName started at startTime has finished: its
\* modification time is its start time (the model's recordings are shorter than
\* an hour).  Owner records the stream that wrote it; Open that its Recording is
\* still Active; Locked that the file system refuses to remove or move it.
FinishedFile(streamName, startTime, size) ==
    [ Path |-> GenerateRecordingPath(streamName, startTime), ModTime |-> startTime,
      Size |-> size, Locked |-> FALSE, Open |-> FALSE, Owner |-> streamName ]

\* The file of a Recording that is still Active: ffmpeg wrote to it just now.
OpenFile(streamName, startTime, size) ==
    [ FinishedFile(streamName, startTime, size) EXCEPT !.ModTime = CleanupTime, !.Open = TRUE ]

\* A file the file system refuses to remove.
LockedFile(streamName, startTime, size) ==
    [ FinishedFile(streamName, startTime, size) EXCEPT !.Locked = TRUE ]

\* A file recorded under a filename given by the caller (the filename parameter of
\* handleStartRecording), which carries no timestamp.
NamedFile(streamName, startTime, size) ==
    [ FinishedFile(streamName, startTime, size) EXCEPT
        !.Path.Name = streamName \o <<"-", "c", "l", "i", "p">> ]

Plain(f) == ~f.Locked /\ ~f.Open /\ extractRecordingTimeFromPath(f.Path) # ZeroTime

FileChoices ==
    UNION { { FinishedFile(s, CleanupTime - a, size), OpenFile(s, CleanupTime - a, size),
              LockedFile(s, CleanupTime - a, size), NamedFile(s, CleanupTime - a, size) } :
            s \in Streams, a \in Ages, size \in {1, 2} }

RECURSIVE DirectoriesUpTo(_)
\* The directories of at most n files with distinct paths, at most one of them
\* open, locked or named by the caller.
DirectoriesUpTo(n) ==
    IF n = 0 THEN { {} }
    ELSE LET smaller == DirectoriesUpTo(n - 1)
         IN  smaller \cup
             UNION { { S \cup {f} :
                         f \in { g \in FileChoices :
                                   /\ \A h \in S : h.Path # g.Path
                                   /\ Plain(g) \/ \A h \in S : Plain(h) } } :
                     S \in smaller }

\* The directories of the model.
Directories == DirectoriesUpTo(MaxFiles)

\* retention_hours and retention_days as validateRecordingConfig leaves them.
Retentions == { <<0, 0>>, <<0, 1>>, <<1, 0>> }

InitClean ==
    /\ heap = << >>
    /\ registry = << >>
    /\ sheap = << >>
    /\ sregistry = << >>
    /\ now = CleanupTime
    /\ last = Call("init", NoId, NoRec, "nil")
    /\ \E r \in Retentions, n \in {0, 1}, size \in {0, 3},
          arch \in { <<FALSE, TRUE>>, <<TRUE, TRUE>>, <<TRUE, FALSE>> } :
          cfg = [ DefaultConfig(FALSE) EXCEPT
                    !.RetentionHours = r[1], !.RetentionDays = r[2],
                    !.MaxRecordings = n, !.MaxTotalSize = size,
                    !.MoveToArchive = arch[1], !.ArchivePath = arch[2] ]
    /\ known = Streams
    /\ orphans = {}
    /\ auto = NoAuto
    /\ target = {}
    /\ files \in Directories
    /\ archive = {}
    /\ result = NoResult
    /\ cron = NoCron
    /\ sched = NoSched
    /\ locks = NoLocks

NextClean == CleanupNowWithStats

SpecClean == InitClean /\ [][NextClean]_vars

(***************************************************************************)
(* Forced cleanup over the same directories, under the default config.     *)
(***************************************************************************)

InitForce ==
    /\ heap = << >>
    /\ registry = << >>
    /\ sheap = << >>
    /\ sregistry = << >>
    /\ now = CleanupTime
    /\ last = Call("init", NoId, NoRec, "nil")
    /\ cfg = DefaultConfig(FALSE)
    /\ known = Streams
    /\ orphans = {}
    /\ auto = NoAuto
    /\ target = {}
    /\ files \in Directories
    /\ archive = {}
    /\ result = NoResult
    /\ cron = NoCron
    /\ sched = NoSched
    /\ locks = NoLocks

NextForce ==
    \E olderThanDays \in {0, 1}, dryRun \in BOOLEAN : ForceCleanup(olderThanDays, dryRun)

SpecForce == InitForce /\ [][NextForce]_vars

(***************************************************************************)
(* Cleanup under a config whose recording.streams gives one stream its own *)
(* retention and count settings.                                           *)
(***************************************************************************)

\* The retention_days, retention_hours and max_recordings an entry can set.
StreamRetentions ==
    { o \in [ RetentionDays : {0, 1, 30}, RetentionHours : {0, 1}, MaxRecordings : {0, 1} ] :
        o.RetentionDays > 0 \/ o.RetentionHours > 0 \/ o.MaxRecordings > 0 }

InitOverride ==
    /\ heap = << >>
    /\ registry = << >>
    /\ sheap = << >>
    /\ sregistry = << >>
    /\ now = CleanupTime
    /\ last = Call("init", NoId, NoRec, "nil")
    /\ \E r \in Retentions, s \in Streams, o \in StreamRetentions :
          cfg = [ DefaultConfig(FALSE) EXCEPT
                    !.RetentionHours = r[1], !.RetentionDays = r[2],
                    !.MaxTotalSize = 0,
                    !.Streams = [ t \in {s} |->
                        [ Enabled |-> "true", AutoStart |-> "unset", Source |-> FALSE,
                          RetentionDays |-> o.RetentionDays,
                          RetentionHours |-> o.RetentionHours,
                          MaxRecordings |-> o.MaxRecordings ] ] ]
    /\ known = Streams
    /\ orphans = {}
    /\ auto = NoAuto
    /\ target = {}
    /\ files \in { d \in Directories : \A f \in d : Plain(f) }
    /\ archive = {}
    /\ result = NoResult
    /\ cron = NoCron
    /\ sched = NoSched
    /\ locks = NoLocks

NextOverride == CleanupNowWithStats

SpecOverride == InitOverride /\ [][NextOverride]_vars

(***************************************************************************)
(* Recordings written under the default templates, then found by the       *)
(* cleanup.                                                                *)
(***************************************************************************)

MaxStart == 30      \* the latest start time of a recording, in hours
MaxWritten == 2     \* files written before the cleanup looks

\* A stream named after a dated source, "c_2000-01-01_00-00-00".
DatedStream == <<"c", "_">> \o Timestamp(0)

PathStreams == Streams \cup { DatedStream }

InitPath ==
    /\ heap = << >>
    /\ registry = << >>
    /\ sheap = << >>
    /\ sregistry = << >>
    /\ now = 0
    /\ last = Call("init", NoId, NoRec, "nil")
    /\ cfg = DefaultConfig(FALSE)
    /\ known = PathStreams
    /\ orphans = {}
    /\ auto = NoAuto
    /\ target = {}
    /\ files = {}
    /\ archive = {}
    /\ result = NoResult
    /\ cron = NoCron
    /\ sched = NoSched
    /\ locks = NoLocks

\* A Recording of streamName started at startTime writes its file under the path
\* of GenerateRecordingPath and is last written to at modTime.  Start keeps the
\* start time.
WriteRecording(streamName, startTime, modTime) ==
    /\ Cardinality(files) < MaxWritten
    /\ \A f \in files : f.Path # GenerateRecordingPath(streamName, startTime)
    /\ files' = files \cup
                  { [ Path |-> GenerateRecordingPath(streamName, startTime),
                      ModTime |-> modTime, Size |-> 1, Locked |-> FALSE,
                      Open |-> FALSE, Owner |-> streamName, Start |-> startTime ] }
    /\ result' = NoResult
    /\ UNCHANGED <<heap, registry, sheap, sregistry, now, last, cfg, known, orphans,
                   auto, target, archive, cron, sched, locks>>

\* The cleanup lists the files: findRecordingFiles.
FindRecordingFiles ==
    /\ files # {}
    /\ result' = [ op |-> "findRecordingFiles", recordings |-> findRecordingFiles(files) ]
    /\ UNCHANGED <<heap, registry, sheap, sregistry, now, last, cfg, known, orphans,
                   auto, target, files, archive, cron, sched, locks>>

NextPath ==
    \/ \E s \in PathStreams, t \in 0..MaxStart, m \in 0..1 : WriteRecording(s, t, t + m)
    \/ FindRecordingFiles

SpecPath == InitPath /\ [][NextPath]_vars

(***************************************************************************)
(* Schedule expressions: parseSchedule and calculateNextRun applied to     *)
(* expressions and times drawn from bounded sets.                          *)
(***************************************************************************)

\* The expressions parseSchedule is given: well-formed ones, and ones with a value
\* out of range or malformed in a literal, a range or a stepped range.
Expressions ==
    { Weekdays9, Quarterly, EveryMinute,
      \* "30 9,17 2 * *"
      Expr(<<Val(<<30>>)>>, <<Val(<<9>>), Val(<<17>>)>>, <<Val(<<2>>)>>, All, All),
      \* "0 0 * 1 0"
      Expr(<<Val(<<0>>)>>, <<Val(<<0>>)>>, All, <<Val(<<1>>)>>, <<Val(<<0>>)>>),
      \* "10-40/10 */6 * * *"
      Expr(<<Step("range", <<10>>, <<40>>, <<10>>)>>, <<Step("*", NaN, NaN, <<6>>)>>,
           All, All, All),
      \* "0 0 31 2 *"
      Expr(<<Val(<<0>>)>>, <<Val(<<0>>)>>, <<Val(<<31>>)>>, <<Val(<<2>>)>>, All),
      \* "60 * * * *"
      Expr(<<Val(<<60>>)>>, All, All, All, All),
      \* "0 25-30 * * *"
      Expr(<<Val(<<0>>)>>, <<Range(<<25>>, <<30>>)>>, All, All, All),
      \* "0 17-9 * * *"
      Expr(<<Val(<<0>>)>>, <<Range(<<17>>, <<9>>)>>, All, All, All),
      \* "50-70 * * * *"
      Expr(<<Range(<<50>>, <<70>>)>>, All, All, All, All),
      \* "70-80/5 * * * *"
      Expr(<<Step("range", <<70>>, <<80>>, <<5>>)>>, All, All, All, All),
      \* "61/5 * * * *"
      Expr(<<Step("val", <<61>>, NaN, <<5>>)>>, All, All, All, All),
      \* "*/0 * * * *"
      Expr(<<Step("*", NaN, NaN, <<0>>)>>, All, All, All, All),
      \* "*/-5 * * * *"
      Expr(<<Step("*", NaN, NaN, <<-5>>)>>, All, All, All, All),
      \* "a * * * *"
      Expr(<<Val(NaN)>>, All, All, All, All),
      \* "0 9-b * * *"
      Expr(<<Val(<<0>>)>>, <<Range(<<9>>, NaN)>>, All, All, All),
      \* "*/a * * * *"
      Expr(<<Step("*", NaN, NaN, NaN)>>, All, All, All, All),
      \* "0 1-2-3 * * *"
      Expr(<<Val(<<0>>)>>, <<BadPart>>, All, All, All),
      \* "0 9 * *"
      [ Minutes |-> <<Val(<<0>>)>>, Hours |-> <<Val(<<9>>)>>, Days |-> <<Star>>,
        Months |-> <<Star>> ],
      \* "0 9 *,5 * *"
      Expr(<<Val(<<0>>)>>, <<Val(<<9>>)>>, <<Star, Val(<<5>>)>>, All, All) }

\* The number of times calculateNextRun is evaluated from.
MaxFrom == 7

\* The times calculateNextRun is evaluated from: 397 minutes apart, from Saturday
\* 2000-01-01 00:00 on.
Froms == { 397 * k : k \in 0..MaxFrom }

InitCron ==
    /\ heap = << >>
    /\ registry = << >>
    /\ sheap = << >>
    /\ sregistry = << >>
    /\ now \in Froms
    /\ last = Call("init", NoId, NoRec, "nil")
    /\ cfg = DefaultConfig(FALSE)
    /\ known = { <<"c">> }
    /\ orphans = {}
    /\ auto = NoAuto
    /\ target = {}
    /\ files = {}
    /\ archive = {}
    /\ result = NoResult
    /\ cron \in { [ step |-> "given", scheduleStr |-> e ] : e \in Expressions }
    /\ sched = NoSched
    /\ locks = NoLocks

\* parseSchedule(scheduleStr), as AddSchedule calls it; it does not return when a
\* step loop does not end.
ParseSchedule ==
    /\ cron.step = "given"
    /\ \E parsed \in { parseSchedule(cron.scheduleStr) } :
          cron' = [ step |-> IF parsed.err = "hang" THEN "hang" ELSE "parsed",
                    scheduleStr |-> cron.scheduleStr, parsedSchedule |-> parsed ]
    /\ UNCHANGED <<heap, registry, sheap, sregistry, now, last, cfg, known, orphans,
                   auto, target, files, archive, result, sched, locks>>

\* calculateNextRun(parsed, time.Now()), as AddSchedule calls it once the
\* expression is parsed.
CalculateNextRun ==
    /\ cron.step = "parsed"
    /\ cron.parsedSchedule.err = "nil"
    /\ cron' = [ step |-> "scheduled", scheduleStr |-> cron.scheduleStr,
                 parsedSchedule |-> cron.parsedSchedule,
                 NextRun |-> calculateNextRun(cron.parsedSchedule, now) ]
    /\ UNCHANGED <<heap, registry, sheap, sregistry, now, last, cfg, known, orphans,
                   auto, target, files, archive, result, sched, locks>>

NextCron == ParseSchedule \/ CalculateNextRun

SpecCron == InitCron /\ [][NextCron]_vars

(***************************************************************************)
(* The scheduler: schedules are added and removed and the scheduler is     *)
(* started and stopped while the routine ticks and recordings end.         *)
(***************************************************************************)

InitSched == Init

NextSched ==
    \/ \E streamName \in Streams, scheduleStr \in ScheduleExpressions,
          capped \in BOOLEAN, visit \in BOOLEAN :
          AddSchedule(streamName, scheduleStr, capped, visit)
    \/ \E streamName \in Streams : RemoveSchedule(streamName)
    \/ StartScheduler
    \/ StopScheduler
    \/ RoutineLoop
    \/ Minute
    \/ TickBegin
    \/ \E i \in DOMAIN sched.objs : TickCheck(i)
    \/ \E ok \in BOOLEAN : TickRun(ok)
    \/ TickEnd
    \/ \E i \in DOMAIN heap, fail \in BOOLEAN : TimerStop(i, fail)
    \/ \E i \in DOMAIN heap : Sweep(i)

SpecSched == InitSched /\ [][NextSched]_vars

(***************************************************************************)
(* Properties of the recording managers.                                   *)
(***************************************************************************)

\* The jobs of a stream that a registry holds and that are Active.
ActiveSingle(streamName) ==
    { id \in DOMAIN registry :
        heap[registry[id]].Stream = streamName /\ heap[registry[id]].Active }

ActiveSegmented(streamName) ==
    { id \in DOMAIN sregistry :
        sheap[sregistry[id]].Stream = streamName /\ sheap[sregistry[id]].Active }

\* C1: at every instant a stream name has at most one Active recording job,
\* counting the single-recording registry and the segmented registry together.
C1_OneActiveJobPerStream ==
    \A s \in Streams :
        Cardinality(ActiveSingle(s)) + Cardinality(ActiveSegmented(s)) <= 1

\* C2: StartRecording calls with the same id leave at most one Active Recording
\* holding a process for that id: while the Recording of one call is Active with
\* its process, no other call with the id has succeeded.
C2_OneActiveProcessPerId ==
    \A i, j \in DOMAIN heap :
        ( /\ heap[i].owner = 0 /\ heap[j].owner = 0
          /\ heap[i].ID = heap[j].ID
          /\ heap[i].Active /\ heap[i].publisher
          /\ heap[j].Active /\ heap[j].publisher ) => i = j

\* C3: when StopRecording(id) has stopped a job and is called again with the same
\* id, the second call returns no error and the job is not Active.
C3_StopTwice ==
    [][ ( /\ last.op = "StopRecording" /\ last.obj # NoRec
          /\ last'.op = "StopRecording" /\ last'.id = last.id
          /\ last' # last )
        => ( last'.err = "nil" /\ ~heap'[last.obj].Active ) ]_vars

\* C4: of an explicit Stop and the duration timer's Stop of one Recording, in
\* either order, publisher.Stop is never called twice, only the first of the two
\* calls can return an error (and only that of its own publisher.Stop), and once
\* both have run publisher.Stop was called exactly once and the Recording is not
\* Active.
C4_ConcurrentStop ==
    \A i \in DOMAIN heap :
        /\ heap[i].nKill <= 1
        /\ (heap[i].timer = "fired" /\ heap[i].nStop = 2)
              => (~heap[i].Active /\ heap[i].nKill = 1)
        /\ (last.obj = i /\ last.err = "StopFailed") => (heap[i].nStop = 1 /\ heap[i].nKill = 1)

\* An explicit Stop and the timer's Stop have both run on a Recording whose
\* process they stopped.
C4_Witness ==
    \E i \in DOMAIN heap :
        heap[i].timer = "fired" /\ heap[i].nStop = 2 /\ heap[i].nKill = 1 /\ ~heap[i].Active


(***************************************************************************)
(* Properties of segmented recordings.                                     *)
(***************************************************************************)

\* C5: of the segment Recordings of one SegmentedRecording at most one is Active
\* at any instant (also when the Stop of the previous segment returned an error),
\* and their segment numbers strictly increase in the order they were started.
C5_SegmentNonOverlap ==
    \A i, j \in DOMAIN heap :
        (heap[i].owner # 0 /\ heap[i].owner = heap[j].owner /\ i < j)
        => ( /\ heap[i].seg < heap[j].seg
             /\ ~(heap[i].Active /\ heap[j].Active) )

\* C6: once SegmentedRecording.Stop has returned, no segment is started for that
\* recording, whatever manageSegments was doing when Stop ran.
C6_NoSegmentAfterStop ==
    [][ \A k \in DOMAIN sheap :
          sheap[k].stopped =>
             \A i \in DOMAIN heap' : heap'[i].owner = k => i \in DOMAIN heap ]_vars

(***************************************************************************)
(* Properties of auto-recording.                                           *)
(***************************************************************************)

\* The auto-recordings of a stream that a registry holds and that are Active.
ActiveAuto(streamName) ==
    { id \in ActiveSingle(streamName) \cup ActiveSegmented(streamName) : id[1] = "auto" }

\* C7: whatever the overlap of the eager pass and the monitor pass, a stream never
\* has two Active auto-recordings.
C7_NoDuplicateAutoRecording ==
    \A s \in Streams : Cardinality(ActiveAuto(s)) <= 1

\* C8: a pass calls startAutoRecording for a stream only after a check in which
\* neither the registries showed an Active job of the stream nor the process probe
\* a running process; a check in which either did ends the stream's handling in
\* that pass without a start.
C8_StartOnlyWhenBothSignalsClear ==
    /\ \A a \in auto.starts : ~a.internal /\ ~a.process
    /\ \A s \in DOMAIN auto.eager :
          /\ auto.eager[s].pc = "start"
                => (~auto.eager[s].sig.internal /\ ~auto.eager[s].sig.process)
          /\ (auto.eager[s].sig.internal \/ auto.eager[s].sig.process)
                => /\ auto.eager[s].pc = "done"
                   /\ \A a \in auto.starts :
                         ~(a.by = "startAllEnabledRecordings" /\ a.stream = s)
    /\ auto.cur # NoStream => (~auto.seen.internal /\ ~auto.seen.process)

\* A start was attempted, one worker skipped a stream the registries showed as
\* recording, another a stream only the process probe showed as recording.
C8_Witness ==
    /\ auto.starts # {}
    /\ \E s \in DOMAIN auto.eager :
          auto.eager[s].pc = "done" /\ auto.eager[s].sig.internal
    /\ \E s \in DOMAIN auto.eager :
          /\ auto.eager[s].pc = "done"
          /\ ~auto.eager[s].sig.internal /\ auto.eager[s].sig.process

RecordingStreams == { s \in Streams : ActiveSingle(s) \cup ActiveSegmented(s) # {} }

\* The streams of the target set a pass can start: known, or with a direct source.
Available == { s \in target : s \in known \/ GetStreamRecordingConfig(s).Source # "" }

\* C10: after one monitor pass that began with nothing recording and in which no
\* start failed, the streams with an Active job are the available streams of the
\* target set, with one Active job each.
C10_PassConverges ==
    ( /\ auto.passes = 1 /\ auto.todo = {} /\ auto.cur = NoStream
      /\ ~auto.eagerRun /\ orphans = {} /\ ~auto.failed )
    => ( /\ RecordingStreams = Available
         /\ \A s \in RecordingStreams :
               Cardinality(ActiveSingle(s) \cup ActiveSegmented(s)) = 1 )

\* C11: a stream configured with enabled true and auto_start false is never
\* started by the eager pass or the monitor; only a manual API call records it.
C11_NoAutoStartWhenAutoStartFalse ==
    \A s \in DOMAIN cfg.Streams :
        (cfg.Streams[s].Enabled = "true" /\ cfg.Streams[s].AutoStart = "false")
            => /\ s \notin target
               /\ \A e \in auto.starts : e.stream # s

\* C12: the failure or panic of one stream during a pass stops no other stream
\* of that pass from being evaluated: a finished monitor pass has evaluated each
\* stream of its target set, a running one has each either evaluated or still
\* ahead, and every eager worker that has not finished can take its next step.
C12_PassIsolatesFailures ==
    /\ auto.passes > 0 => auto.evaluated \cup auto.todo = target
    /\ (auto.passes > 0 /\ auto.todo = {}) => auto.evaluated = target
    /\ auto.eagerRun =>
          \A s \in DOMAIN auto.eager :
              auto.eager[s].pc = "check" => ENABLED EagerCheck(s)

\* A finished monitor pass over two streams in which one stream failed or
\* panicked and the other was started.
C12_Witness ==
    /\ auto.passes > 0 /\ auto.todo = {} /\ auto.cur = NoStream
    /\ auto.failed /\ ~auto.eagerRun
    /\ Cardinality(target) = 2 /\ auto.evaluated = target
    /\ RecordingStreams # {}

(***************************************************************************)
(* Properties of retention and cleanup.                                    *)
(***************************************************************************)

\* Archiving is in effect: move_to_archive is set and archive_path is not empty.
Archiving == cfg.MoveToArchive /\ cfg.ArchivePath

\* The recording time findRecordingFiles reconstructs for a file.
RecordingTimeOf(f) == (CHOOSE rec \in findRecordingFiles({f}) : TRUE).RecordingTime

\* The {stream} directory of a path, which follows its date directories.
StreamDirOf(path) == SubSeq(path.Dir, Len(DateDir(0)) + 2, Len(path.Dir))

\* The files of a stream: those under its {stream} directory.
OfStream(fs, streamName) == { f \in fs : f.Owner = streamName }

C14_CountCap ==
    [][ ( /\ result'.op = "runCleanupWithStats" /\ result'.Failed = {}
          /\ cfg.MaxRecordings > 0 /\ cfg.MaxTotalSize = 0
          /\ \A f \in files : ~(RecordingTimeOf(f) < now - GetRetentionDuration) )
        => \A s \in Streams :
              Cardinality(OfStream(files, s)) > cfg.MaxRecordings
                => /\ Cardinality(OfStream(files', s)) = cfg.MaxRecordings
                   /\ OfStream(files', s) \subseteq OfStream(files, s)
                   /\ \A k \in OfStream(files', s), r \in OfStream(files, s) \ files' :
                         RecordingTimeOf(r) <= RecordingTimeOf(k) ]_vars

\* C15: with max_total_size = S and a combined size above S, after a cleanup run
\* whose removals succeed the remaining files total at most S, and no file was
\* removed for size while an older file was kept, whatever the streams.
C15_GlobalSizeCap ==
    [][ ( /\ result'.op = "runCleanupWithStats" /\ result'.Failed = {}
          /\ cfg.MaxTotalSize > 0 /\ TotalSize(files) > cfg.MaxTotalSize )
        => /\ TotalSize(files') <= cfg.MaxTotalSize
           /\ \A r \in files, k \in files' :
                 r.Path \in result'.SizeRemoved
                    => /\ r \notin files'
                       /\ RecordingTimeOf(r) <= RecordingTimeOf(k) ]_vars

\* A run that removed a file for size and kept a newer one of another stream.
C15_Witness ==
    /\ result.op = "runCleanupWithStats" /\ result.Failed = {}
    /\ <<"global_size_limit">> \in result.Policies
    /\ \E p \in result.SizeRemoved, k \in files : k.Owner # StreamDirOf(p)
    /\ TotalSize(files) <= cfg.MaxTotalSize

\* C16: with archiving enabled every file marked for removal ends up under the
\* archive root at <stream>/<year>/<month>/<day>/<file name>, the date being that
\* of its recording time, and is gone from its path; none is deleted instead.
C16_ArchiveRoundTrip ==
    (result.op = "runCleanupWithStats" /\ Archiving /\ result.Failed = {})
        => /\ result.DeletedFiles = {}
           /\ \A p \in result.Marked :
                 /\ ~Exists([ fs |-> files, ar |-> archive ], p)
                 /\ \E a \in archive :
                       /\ a.From.Path = p
                       /\ a.Name = p.Name
                       /\ a.Dir = a.From.Owner \o <<"/">> \o DateDir(RecordingTimeOf(a.From))

\* C17: a policy cleanup run right after a run whose removals all succeeded (same
\* clock, same configuration, no new file) removes and archives nothing.
C17_Idempotent ==
    [][ ( /\ result.op = "runCleanupWithStats" /\ result.Failed = {}
          /\ result'.op = "runCleanupWithStats" )
        => /\ files' = files
           /\ archive' = archive
           /\ result'.Marked = {}
           /\ result'.FilesDeleted = 0 /\ result'.FilesArchived = 0 ]_vars

\* A second run that found nothing to do after a first run that archived files.
C17_Witness ==
    /\ result.op = "runCleanupWithStats"
    /\ result.Marked = {}
    /\ archive # {}
    /\ files # {}

\* C18 as stated: a file whose removal failed in a pass is marked again by the
\* next pass.
C18_FailedFileMarkedAgain ==
    [][ (result.op = "runCleanupWithStats" /\ result'.op = "runCleanupWithStats")
        => result.Failed \subseteq result'.Marked ]_vars

\* C18: a removal that fails never aborts a pass: the pass returns its summary
\* without error, every file past the retention cutoff was marked, every marked
\* file whose removal did not fail is gone, the file that failed is still at its
\* path, and the next pass marks it again if it is past the retention cutoff.
C18_FailureIsolated ==
    [][ result'.op = "runCleanupWithStats"
        => /\ result'.err = "nil" /\ last'.err = "nil"
           /\ \A f \in files :
                 RecordingTimeOf(f) < now - GetRetentionDuration => f.Path \in result'.Marked
           /\ \A f \in files :
                 (f.Path \in result'.Marked \ result'.Failed) => f \notin files'
           /\ \A f \in files : f.Path \in result'.Failed => f \in files'
           /\ result.op = "runCleanupWithStats"
                => \A f \in files :
                      ( /\ f.Path \in result.Failed
                        /\ RecordingTimeOf(f) < now - GetRetentionDuration )
                        => f.Path \in result'.Marked ]_vars

\* A pass in which one removal failed and another marked file was removed.
C18_Witness ==
    /\ result.op = "runCleanupWithStats"
    /\ result.Failed # {}
    /\ result.Marked \ result.Failed # {}
    /\ \A p \in result.Failed : Exists([ fs |-> files, ar |-> archive ], p)

\* C19: a cleanup pass never deletes or archives the file an Active recording is
\* writing.
C19_ActiveFileUntouched ==
    [][ \A f \in files : f.Open => f \in files' ]_vars

\* C20: a forced cleanup with dryRun set changes nothing on the file system and
\* reports exactly the files whose recording time is before the threshold, which
\* are the files the run without dryRun selects, and deletes when its removals
\* succeed; the configured retention policy plays no part.
C20_DryRunReportsWhatARunDeletes ==
    [][ (result'.op = "ForceCleanupOldRecordings" /\ result'.DryRun)
        => /\ files' = files
           /\ archive' = archive
           /\ result'.FilesDeleted = 0
           /\ result'.DeletedFiles =
                 { f.Path : f \in { g \in files :
                     RecordingTimeOf(g) < now - result'.OlderThanDays * 24 } }
           /\ \A sorted \in SortedByRecordingTime(findRecordingFiles(files)) :
                 LET run == ForceCleanupOldRecordings([ fs |-> files, ar |-> archive ],
                               sorted, result'.OlderThanDays, FALSE).result
                 IN  /\ run.Marked = result'.DeletedFiles
                     /\ run.DeletedFiles = result'.DeletedFiles \ run.Failed
                     /\ run.Failed = { f.Path : f \in { g \in files :
                                         g.Locked /\ g.Path \in result'.DeletedFiles } } ]_vars

\* A dry run that reported some files of the directory and not others.
C20_Witness ==
    /\ result.op = "ForceCleanupOldRecordings" /\ result.DryRun
    /\ result.DeletedFiles # {}
    /\ \E f \in files : f.Path \notin result.DeletedFiles
    /\ \E f \in files : f.Path \in result.DeletedFiles

\* The retention duration of a stream under its effective config, in hours.
StreamRetentionDuration(streamName) ==
    LET c == GetStreamRecordingConfig(streamName)
    IN  IF c.RetentionHours > 0 THEN c.RetentionHours
        ELSE IF c.RetentionDays > 0 THEN c.RetentionDays * 24
        ELSE 7 * 24

\* C21: cleanup evicts the files of a stream by that stream's own retention_days,
\* retention_hours and max_recordings: after a pass whose removals succeed (no
\* size cap, no archiving) no file of the stream is past the stream's cutoff, the
\* stream has no more files than its max_recordings, and a file within both is
\* kept.
C21_PerStreamRetention ==
    [][ (result'.op = "runCleanupWithStats" /\ result'.Failed = {}
           /\ cfg.MaxTotalSize = 0 /\ ~Archiving)
        => \A s \in Streams :
              LET c == GetStreamRecordingConfig(s)
                  mine == OfStream(files, s)
                  fresh == { f \in mine :
                               ~(RecordingTimeOf(f) < now - StreamRetentionDuration(s)) }
              IN  /\ \A f \in OfStream(files', s) : f \in fresh
                  /\ Cardinality(OfStream(files', s)) <= c.MaxRecordings
                  /\ Cardinality(fresh) <= c.MaxRecordings =>
                        \A f \in fresh : f \in files' ]_vars

(***************************************************************************)
(* Properties of the schedules.                                            *)
(***************************************************************************)

\* The minutes after a time within which the expressions drawn have a match.
Horizon == 7 * 24 * 60

BadValue(part, min, max) ==
    LET out(x) == ~IsNum(x) \/ Atoi(x) < min \/ Atoi(x) > max
    IN  CASE part.k = "bad" -> TRUE
          [] part.k = "*" -> TRUE
          [] part.k = "val" -> out(part.a)
          [] part.k = "range" -> out(part.a) \/ out(part.b)
          [] part.k = "step" ->
               \/ ~IsNum(part.s)
               \/ part.base = "val" /\ out(part.a)
               \/ part.base = "range" /\ (out(part.a) \/ out(part.b))

\* An expression has a field, other than "*", with a part of a bad value.
BadExpression(scheduleStr) ==
    \E i \in DOMAIN FieldNames :
       /\ FieldNames[i] \in DOMAIN scheduleStr
       /\ scheduleStr[FieldNames[i]] # <<Star>>
       /\ \E j \in DOMAIN scheduleStr[FieldNames[i]] :
             BadValue(scheduleStr[FieldNames[i]][j],
                      FieldRange[FieldNames[i]][1], FieldRange[FieldNames[i]][2])

\* C23: every expression parseSchedule accepts has in each of its five fields the
\* wildcard or a non-empty list of values inside the range of the field, and an
\* expression with a malformed or out-of-range value in a literal, a range or a
\* stepped range is rejected with an error.
C23_ParseRejectsBadFields ==
    /\ cron.step # "hang"
    /\ cron.step \in { "parsed", "scheduled" }
         => /\ cron.parsedSchedule.err = "nil"
                 => \A i \in DOMAIN FieldNames :
                       LET vals == cron.parsedSchedule[FieldNames[i]]
                       IN  \/ vals = <<-1>>
                           \/ /\ vals # << >>
                              /\ \A j \in DOMAIN vals :
                                    /\ vals[j] >= FieldRange[FieldNames[i]][1]
                                    /\ vals[j] <= FieldRange[FieldNames[i]][2]
            /\ BadExpression(cron.scheduleStr) => cron.parsedSchedule.err # "nil"

\* The step in which checkAndExecuteSchedules runs the loop body for the schedule
\* it has taken.
TickRunStep == sched.routine = "range" /\ sched.cur # 0 /\ sched'.cur = 0

\* C24: on a tick with now >= NextRun and an empty ActiveID a recording with the
\* duration of the schedule is started and ActiveID set to its id, unless
\* StartRecording fails; with an ActiveID, or before NextRun, no recording is
\* started; and after every tick an ActiveID names a registered, Active recording.
C24_TickStartsAndClears ==
    [][ TickRunStep =>
          LET i == sched.cur
              before == sched.objs[i]
              after == sched'.objs[i]
              due == sched.tickNow >= before.NextRun
          IN  /\ (due /\ before.ActiveID = NoId)
                    => \/ /\ Len(heap') = Len(heap) + 1
                          /\ heap'[Len(heap')].Stream = before.StreamName
                          /\ heap'[Len(heap')].capped = before.capped
                          /\ heap'[Len(heap')].Active
                          /\ after.ActiveID = heap'[Len(heap')].ID
                          /\ after.ActiveID \in DOMAIN registry'
                          /\ registry'[after.ActiveID] = Len(heap')
                       \/ /\ heap' = heap
                          /\ registry' = registry
                          /\ after.ActiveID = NoId
              /\ (~due \/ before.ActiveID # NoId) => heap' = heap /\ registry' = registry
              /\ after.ActiveID # NoId
                    => /\ after.ActiveID \in DOMAIN registry'
                       /\ heap'[registry'[after.ActiveID]].Active
              /\ (before.ActiveID # NoId /\ after.ActiveID # NoId)
                    => after.ActiveID = before.ActiveID ]_vars

\* A schedule has started a second recording after the ActiveID of its first, which
\* had stopped, was cleared.
C24_Witness ==
    \E i \in DOMAIN sched.objs :
       /\ Cardinality(sched.objs[i].started) = 2
       /\ sched.objs[i].ActiveID \in DOMAIN registry
       /\ heap[registry[sched.objs[i].ActiveID]].Active
       /\ \E h \in sched.objs[i].started : ~heap[h].Active

\* C25: once RemoveSchedule has returned for a schedule, or StopScheduler has
\* returned, no recording the schedule triggered is Active.
C25_NoActiveRecordingAfterRemoval ==
    \A i \in DOMAIN sched.objs :
       (\/ sched.objs[i].removed
        \/ sched.stopped /\ i \in { sched.schedules[s] : s \in DOMAIN sched.schedules })
       => \A h \in sched.objs[i].started : ~heap[h].Active

(***************************************************************************)
(* Further properties of the recording managers.                           *)
(***************************************************************************)

\* C26: when the producer is not created within the timeout, or its creation or
\* its start returns an error, StartRecording returns the error, no Recording is
\* made Active, the id gets no registry entry and the other entries stay.
C26_FailedStartLeavesNoTrace ==
    [][ (last'.op = "StartRecording" /\ last'.err = "ProducerFailed")
           => /\ registry' = registry
              /\ heap' = heap
              /\ last'.id \notin DOMAIN registry' ]_vars

\* A start failed on its producer while another recording was registered.
C26_Witness ==
    /\ last.op = "StartRecording"
    /\ last.err = "ProducerFailed"
    /\ last.id \notin DOMAIN registry
    /\ \E id \in DOMAIN registry : heap[registry[id]].Active

\* C27: a Recording started with a duration cap, and never stopped by a call,
\* eventually is not Active and is eventually no longer the Recording its id is
\* registered with.
C27_CappedRecordingEnds ==
    \A i \in 1..MaxRecs :
       (IF i \in DOMAIN heap THEN heap[i].capped /\ heap[i].Active ELSE FALSE)
          ~> (IF i \in DOMAIN heap
              THEN ~heap[i].Active /\ \A id \in DOMAIN registry : registry[id] # i
              ELSE FALSE)

\* C28: on a tick of the evaluator of an Active SegmentedRecording a rotation is
\* decided if and only if the time since the current segment started has reached
\* the configured segment duration (elapsed) or the size of its file the
\* configured maximum (big).
C28_RotateIffDue ==
    [][ \A k \in DOMAIN sheap, elapsed \in BOOLEAN, big \in BOOLEAN :
          (EvalTick(k, elapsed, big) /\ sheap[k].Active /\ sheap[k].currentRecording # NoRec)
             => ((cfg.SegmentDuration /\ elapsed) \/ (cfg.MaxFileSize /\ big)
                    <=> sheap'[k].eval = "rotate") ]_vars

\* C29: every Recording started through RecordingManager.StartRecording that is
\* Active is the Recording its id is registered with.
C29_RegistryComplete ==
    \A i \in DOMAIN heap :
       (heap[i].owner = 0 /\ heap[i].Active)
          => (heap[i].ID \in DOMAIN registry /\ registry[heap[i].ID] = i)

(***************************************************************************)
(* Further properties of the cleanup.                                      *)
(***************************************************************************)

\* C30: the global size policy removes files only when the files still present
\* after the per-stream policies of the pass total more than max_total_size.
C30_SizePolicyCountsPresentFiles ==
    [][ (result'.op = "runCleanupWithStats" /\ cfg.MaxTotalSize > 0
           /\ result'.SizeRemoved # {})
        => TotalSize(files' \cup { f \in files : f.Path \in result'.SizeRemoved })
              > cfg.MaxTotalSize ]_vars

(***************************************************************************)
(* Further properties of the schedules.                                    *)
(***************************************************************************)

\* C31: after a tick at time now has handled a due schedule, NextRun is the
\* earliest minute after the minute of now that matches the expression: it is
\* later than now, it matches, and no minute between now and it matches.
C31_NextRunIsFollowingOccurrence ==
    [][ (TickRunStep /\ sched.tickNow >= sched.objs[sched.cur].NextRun)
          => LET parsed == sched.objs[sched.cur].parsedSchedule
                 next == sched'.objs[sched.cur].NextRun
             IN  /\ next > sched.tickNow
                 /\ matchesSchedule(parsed, next)
                 /\ \A t \in (sched.tickNow + 1)..(next - 1) :
                       ~matchesSchedule(parsed, t) ]_vars

\* C32: the NextRun stored for a schedule whose fields all have values matches
\* the minute, the hour, the day of the month, the month and the weekday of its
\* expression.
C32_NextRunMatchesExpression ==
    (/\ cron.step = "scheduled"
     /\ \A i \in DOMAIN FieldNames : cron.parsedSchedule[FieldNames[i]] # << >>)
    => matchesSchedule(cron.parsedSchedule, cron.NextRun)

\* C33: parseSchedule returns, with a schedule or with an error, for every
\* expression: no step and no range bounds keep a loop of parseField running.
C33_ParseScheduleReturns ==
    cron.step # "hang"

\* The recordings the scheduler started for a stream that are Active.
ActiveScheduled(streamName) ==
    { h \in DOMAIN heap : /\ heap[h].Active
                          /\ heap[h].ID[1] = "sched"
                          /\ heap[h].Stream = streamName }

\* C34: a stream has at most one Active recording started by the scheduler, and
\* every Active recording the scheduler started is the ActiveID of a schedule in
\* the map.
C34_OneScheduledRecordingPerStream ==
    \A s \in Streams :
       /\ Cardinality(ActiveScheduled(s)) <= 1
       /\ \A h \in ActiveScheduled(s) :
             \E n \in DOMAIN sched.schedules :
                sched.objs[sched.schedules[n]].ActiveID = heap[h].ID

\* C35: once StopScheduler has returned, no step starts a recording for a
\* schedule.
C35_NoStartAfterStopScheduler ==
    [][ sched.stopped
          => \A i \in DOMAIN sched.objs :
                sched'.objs[i].started = sched.objs[i].started ]_vars

(***************************************************************************)
(* Further properties of auto-recording.                                   *)
(***************************************************************************)

\* C36: once StopAutoRecordings has returned, no step registers a recording or a
\* segmented recording under an "auto_" id until StartAutoRecordings is called
\* again, and at no time is more than one monitoring loop running.
C36_NoAutoStartAfterStop ==
    /\ [][ auto.stopped
             => \A id \in (DOMAIN registry' \cup DOMAIN sregistry')
                             \ (DOMAIN registry \cup DOMAIN sregistry) :
                   id[1] # "auto" ]_vars
    /\ [](auto.monitors <= 1)

(***************************************************************************)
(* Further properties of segmented recording.                              *)
(***************************************************************************)

\* C37: a SegmentedRecording that is Active, with no rotation under way, has a
\* current segment, and that segment is an Active Recording.
C37_ActiveHasActiveSegment ==
    \A k \in DOMAIN sheap :
       (sheap[k].Active /\ sheap[k].eval # "rotate")
       => /\ sheap[k].currentRecording # NoRec
          /\ heap[sheap[k].currentRecording].Active

(***************************************************************************)
(* Further properties of the configuration.                                *)
(***************************************************************************)

\* C38: the effective Enabled of GetStreamRecordingConfig for a stream is true
\* exactly when IsStreamRecordingEnabled is true for it.
C38_EnabledReadingsAgree ==
    result.op = "IsStreamRecordingEnabled" => (result.effective <=> result.enabled)

(***************************************************************************)
(* Properties of the locks.                                                *)
(***************************************************************************)

\* The place of a mutex in the order: the managers, a SegmentedRecording, a
\* Recording.
Rank(m) ==
    CASE m \in { "rm.mu", "srm.mu" } -> 1
      [] m = "sr.mu" -> 2
      [] OTHER -> 3

\* Goroutine t is in Lock() for a mutex that goroutine u holds.
Waits(t, u) ==
    /\ locks.thread[t].op # "idle"
    /\ NextCall(t)[1] = "Lock"
    /\ locks.owner[NextCall(t)[2]] = u

\* C39: no goroutines wait for each other's mutexes (in every set of goroutines
\* one does not wait for a member of the set), and every goroutine holds its
\* mutexes in the order manager, SegmentedRecording, Recording.
C39_NoDeadlock ==
    /\ \A S \in SUBSET Threads \ {{}} :
          \E t \in S : \A u \in S : ~Waits(t, u)
    /\ \A t \in Threads :
          \A i, j \in DOMAIN locks.thread[t].held :
             i < j => Rank(locks.thread[t].held[i]) < Rank(locks.thread[t].held[j])

\* StopRecording holds rm.mu and waits for r.mu, which the duration-expiry stop
\* of the same recording holds.
C39_Witness ==
    \E t, u \in Threads :
       /\ locks.thread[t].op = "StopRecording"
       /\ locks.thread[u].op = "expiry"
       /\ locks.thread[t].held = << "rm.mu" >>
       /\ Waits(t, u)

(***************************************************************************)
(* Further properties of the cleanup.                                      *)
(***************************************************************************)

\* C40: the RecordingTime the cleanup gives a file written under the path of
\* GenerateRecordingPath is the start time of its recording, for every stream
\* name and every start time.
C40_TimestampRoundTrip ==
    result.op = "findRecordingFiles"
    => \A f \in files :
          \E r \in result.recordings :
             r.Path = f.Path /\ r.RecordingTime = f.Start
====
